---------------------------- MODULE Spec2Model ----------------------------
(***************************************************************************)
(* GlideAware fuzzy correction engine (fuzzyMatcher.js with the ServiceNow *)
(* API dictionary).  JavaScript strings are TLA+ strings; a character is a *)
(* string of length 1 and s[i] (0-based) is SubSeq(s, i+1, i+1).  Offsets  *)
(* kept in records (startIndex, endIndex) are the 0-based offsets of the   *)
(* source.  Floating-point similarities are kept as exact fractions        *)
(* [n, d] (d > 0) and compared by cross-multiplication; for names shorter  *)
(* than 25 characters every comparison of the source (>, >= 0.70, 0.85,    *)
(* 0.75, 0.65, margin >= 0.08) has the same outcome on IEEE doubles.       *)
(***************************************************************************)
EXTENDS Integers, Sequences, FiniteSets, TLC

VARIABLES
    mode,         \* which entry point this behaviour exercises
    pc,           \* position inside the entry point
    code,         \* text handed to fuzzyCorrectCode / analyzeCode
    run,          \* 1 for the first call, 2 for the call on the first call's output
    typeMap,      \* Map built by inferVariableTypes for the current call
    scanned,      \* occurrences examined by analyzeCode's two scans (analysis log)
    corrections,  \* analyzeCode().corrections
    suggestions,  \* analyzeCode().suggestions
    processed,    \* fuzzyCorrectCode().processed
    fixes,        \* fuzzyCorrectCode().fixes
    messages,     \* fuzzyCorrectCode().suggestions
    first,        \* what the first call was given and returned, kept for the second call
    identifier,   \* findBestMatch's identifier argument
    dictionary,   \* findBestMatch's dictionary argument
    result,       \* findBestMatch's return value
    strA,         \* first argument of damerauLevenshteinDistance / similarityScore
    strB,         \* second argument of damerauLevenshteinDistance / similarityScore
    dist,         \* damerauLevenshteinDistance's return value
    score,        \* similarityScore's return value
    source,       \* text handed to applyServiceNowFixes
    passOne,      \* applyServiceNowFixes: processed and fixes after the regex pass
    answer,       \* applyServiceNowFixes's return value
    input,        \* text handed to applyGenericFixes / fixMissingClosingBrackets
    output,       \* what that call returned
    again         \* what fixMissingClosingBrackets returned for the code of output

vars == <<mode, pc, code, run, typeMap, scanned, corrections, suggestions,
          processed, fixes, messages, first, identifier, dictionary, result,
          strA, strB, dist, score, source, passOne, answer,
          input, output, again>>

-----------------------------------------------------------------------------
(* Characters and strings                                                  *)

\* a local constant (const x = v; ...): v is computed once and named in Body
Bind(v, Body(_)) == CHOOSE r \in { Body(x) : x \in {v} } : TRUE

\* for (k = lo; k <= hi; k++) st = Step(k, st): the iterations run in order,
\* each on the value the one before left; the range is halved so that the
\* evaluation nests to the logarithm of its length
RECURSIVE For(_, _, _, _)
For(lo, hi, Step(_, _), st) ==
    IF lo >= hi THEN (IF lo > hi THEN st ELSE Step(lo, st))
    ELSE CHOOSE r \in { For((lo + hi) \div 2 + 1, hi, Step, half) :
                          half \in { For(lo, (lo + hi) \div 2, Step, st) } } : TRUE

UpperChars == "ABCDEFGHIJKLMNOPQRSTUVWXYZ"
LowerChars == "abcdefghijklmnopqrstuvwxyz"
DigitChars == "0123456789"

\* s[i] for a 0-based i; "" stands for undefined (i outside the string)
CharAt(s, i) == IF i < 0 \/ i >= Len(s) THEN "" ELSE SubSeq(s, i + 1, i + 1)

CharsOf(s) == { SubSeq(s, i, i) : i \in 1..Len(s) }

UpperSet == CharsOf(UpperChars)

\* \w of a JavaScript regular expression without the u flag
WordSet == CharsOf(UpperChars) \cup CharsOf(LowerChars) \cup CharsOf(DigitChars) \cup {"_"}

\* \s restricted to the ASCII white space
SpaceSet == {" ", "\t", "\n", "\r", "\f"}

IsWordChar(c) == c \in WordSet

IsSpace(c) == c \in SpaceSet

LowerCaseMap ==
    [c \in UpperSet |->
        LET i == CHOOSE k \in 1..Len(UpperChars) : SubSeq(UpperChars, k, k) = c
        IN  SubSeq(LowerChars, i, i)]

\* a string holds printable ASCII only: "#" stands for U+0130 (capital I with
\* dot above) and "'" for U+0307 (combining dot above)
DottedCapitalI == "#"

CombiningDot == "'"

\* toLowerCase maps U+0130 to the two characters U+0069 U+0307
ToLowerChar(c) ==
    IF c \in UpperSet THEN LowerCaseMap[c]
    ELSE IF c = DottedCapitalI THEN "i" \o CombiningDot
    ELSE c

toLowerCase(s) ==
    For(1, Len(s), LAMBDA k, out : out \o ToLowerChar(SubSeq(s, k, k)), "")

\* String.prototype.slice(start, end) for 0 <= start
Slice(s, start, end) ==
    LET e == IF end > Len(s) THEN Len(s) ELSE end
    IN  IF start >= e THEN "" ELSE SubSeq(s, start + 1, e)

SliceFrom(s, start) == Slice(s, start, Len(s))

\* String.prototype.indexOf(needle): 0-based offset of the first occurrence, -1 if none
IndexOf(s, needle) ==
    LET hits == { i \in 0..(Len(s) - Len(needle)) : Slice(s, i, i + Len(needle)) = needle }
    IN  IF hits = {} THEN -1 ELSE CHOOSE i \in hits : \A k \in hits : i <= k

\* Array.prototype.includes
Includes(list, x) == \E i \in 1..Len(list) : list[i] = x

Min2(x, y) == IF x <= y THEN x ELSE y

Max2(x, y) == IF x >= y THEN x ELSE y

Abs(x) == IF x < 0 THEN -x ELSE x

\* the value null (outside every identifier alphabet)
Null == "<null>"

-----------------------------------------------------------------------------
(* Damerau-Levenshtein edit distance                                       *)

\* d[i][j] without the transposition case
DLCellWithoutSwap(a, b, i, j, up, left, diag, trans, cost) ==
    Min2(Min2(up + 1, left + 1), diag + cost)

\* d[i][j] with a deletion counted twice
DLCellCostlyDeletion(a, b, i, j, up, left, diag, trans, cost) ==
    IF /\ i > 1
       /\ j > 1
       /\ CharAt(a, i - 1) = CharAt(b, j - 2)
       /\ CharAt(a, i - 2) = CharAt(b, j - 1)
    THEN Min2(Min2(Min2(up + 2, left + 1), diag + cost), trans + cost)
    ELSE Min2(Min2(up + 2, left + 1), diag + cost)

\* d[i][j] from the cells around it: up = d[i-1][j], left = d[i][j-1],
\* diag = d[i-1][j-1], trans = d[i-2][j-2] (read only when i > 1 and j > 1)
DLCell(a, b, i, j, up, left, diag, trans, cost) ==
    IF /\ i > 1
       /\ j > 1
       /\ CharAt(a, i - 1) = CharAt(b, j - 2)
       /\ CharAt(a, i - 2) = CharAt(b, j - 1)
    THEN Min2(Min2(Min2(up + 1,            \* Deletion
                        left + 1),         \* Insertion
                   diag + cost),           \* Substitution
              trans + cost)                \* Transposition
    ELSE Min2(Min2(up + 1, left + 1), diag + cost)

\* row i of the matrix d from prev = d[i-1] and prev2 = d[i-2]; a row is a
\* sequence whose element j+1 is d[.][j]
DLCells(a, b, i, prev, prev2) ==
    For(1, Len(b),
        LAMBDA j, acc :
            Append(acc, DLCell(a, b, i, j, prev[j + 1], acc[j], prev[j], prev2[j - 1],
                               IF CharAt(a, i - 1) = CharAt(b, j - 1) THEN 0 ELSE 1)),
        <<i>>)

\* the rows 1..lenA, each from the two rows before it
DLRows(a, b, row0) ==
    For(1, Len(a),
        LAMBDA i, rows : [prev |-> DLCells(a, b, i, rows.prev, rows.prev2), prev2 |-> rows.prev],
        [prev |-> row0, prev2 |-> row0])

damerauLevenshteinDistance(a, b) ==
    IF a = b THEN 0
    ELSE IF Len(a) = 0 THEN Len(b)
    ELSE IF Len(b) = 0 THEN Len(a)
    ELSE DLRows(a, b, [j \in 1..(Len(b) + 1) |-> j - 1]).prev[Len(b) + 1]

-----------------------------------------------------------------------------
(* Fractions standing for the floating-point similarities                  *)

Frac(n, d) == [n |-> n, d |-> d]

FracGT(x, y) == x.n * y.d > y.n * x.d

FracGE(x, y) == x.n * y.d >= y.n * x.d

FracSub(x, y) == [n |-> x.n * y.d - y.n * x.d, d |-> x.d * y.d]

Pct(p) == Frac(p, 100)

-----------------------------------------------------------------------------
(* ServiceNow dictionary.  Each list is an excerpt of the source list, in  *)
(* the source's order; the excerpt keeps, for every identifier of the      *)
(* input texts below, the entries that decide its match in the full list.  *)

GLIDE_RECORD_METHODS ==
    <<"addQuery", "query", "get", "next", "getValue", "setValue", "getED",
      "insert", "update", "canRead">>

GLIDE_DATE_TIME_METHODS == <<"addSeconds", "addMinutes">>

GLIDE_DATE_METHODS == <<"getValue", "setValue", "getDisplayValue">>

GLIDE_SYSTEM_METHODS ==
    <<"info", "warn", "getUser", "getUserID", "getSession", "getSessionID", "nil">>

GLIDE_USER_METHODS == <<"getID", "getUserID", "getName", "hasRole">>

GLIDE_SESSION_METHODS == <<"getSessionID", "isMobile", "getUser", "getRoles">>

GLIDE_AJAX_METHODS == <<"addParam", "getXML", "getAnswer">>

REST_MESSAGE_V2_METHODS == <<"execute", "setEndpoint", "setRequestBody">>

\* [...REST_MESSAGE_V2_METHODS, 'setWSSecurity', 'setSOAPAction']
SOAP_MESSAGE_V2_METHODS ==
    REST_MESSAGE_V2_METHODS \o <<"setWSSecurity", "setSOAPAction">>

SP_METHODS == <<"getRecord", "getValues">>

\* 'GlideAjax' is listed twice in the source (Ajax/HTTP and Client-side classes)
CLASS_NAMES ==
    <<"GlideRecord", "GlideRecordSecure", "GlideDateTime", "GlideDate",
      "GlideUser", "GlideSession", "GlideAjax", "RESTMessageV2", "SOAPMessageV2",
      "JSUtil", "JSON", "GlideSPScriptable", "GlideAjax">>

\* own properties of the object literal CONTEXT_METHOD_MAP
CONTEXT_METHOD_MAP ==
    [k \in {"GlideRecord", "GlideRecordSecure", "GlideDateTime", "GlideDate",
            "GlideUser", "GlideSession",
            "GlideAjax", "RESTMessageV2", "SOAPMessageV2", "GlideSPScriptable",
            "gs", "current"} |->
        CASE k \in {"GlideRecord", "GlideRecordSecure", "current"} -> GLIDE_RECORD_METHODS
          [] k = "GlideDateTime" -> GLIDE_DATE_TIME_METHODS
          [] k = "GlideDate" -> GLIDE_DATE_METHODS
          [] k = "GlideUser" -> GLIDE_USER_METHODS
          [] k = "GlideSession" -> GLIDE_SESSION_METHODS
          [] k = "GlideAjax" -> GLIDE_AJAX_METHODS
          [] k = "RESTMessageV2" -> REST_MESSAGE_V2_METHODS
          [] k = "SOAPMessageV2" -> SOAP_MESSAGE_V2_METHODS
          [] k = "GlideSPScriptable" -> SP_METHODS
          [] k = "gs" -> GLIDE_SYSTEM_METHODS]

\* [...new Set(list)]: the elements in order of first occurrence
RECURSIVE Unique(_)
Unique(list) ==
    IF list = <<>> THEN <<>>
    ELSE LET front == Unique(SubSeq(list, 1, Len(list) - 1))
             last  == list[Len(list)]
         IN  IF Includes(front, last) THEN front ELSE Append(front, last)

ALL_METHODS ==
    Unique(GLIDE_RECORD_METHODS \o GLIDE_DATE_TIME_METHODS \o GLIDE_DATE_METHODS
           \o GLIDE_SYSTEM_METHODS \o GLIDE_USER_METHODS
           \o GLIDE_SESSION_METHODS \o GLIDE_AJAX_METHODS
           \o REST_MESSAGE_V2_METHODS \o SP_METHODS)

\* Properties every object literal inherits from Object.prototype: reading one
\* of them from CONTEXT_METHOD_MAP yields a function (an object for __proto__),
\* which is truthy and has no includes method.
ObjectPrototypeKeys ==
    {"constructor", "toString", "toLocaleString", "valueOf", "hasOwnProperty",
     "isPrototypeOf", "propertyIsEnumerable", "__proto__", "__defineGetter__",
     "__defineSetter__", "__lookupGetter__", "__lookupSetter__"}

\* CONTEXT_METHOD_MAP[key] as JavaScript evaluates it
ContextLookup(key) ==
    IF key \in DOMAIN CONTEXT_METHOD_MAP
    THEN [kind |-> "array", items |-> CONTEXT_METHOD_MAP[key]]
    ELSE IF key \in ObjectPrototypeKeys
    THEN [kind |-> "inherited", items |-> <<>>]
    ELSE [kind |-> "undefined", items |-> <<>>]

Truthy(v) == v.kind # "undefined"

-----------------------------------------------------------------------------
(* CONFIG                                                                  *)

maxEditDistance == 2

minSimilarity == Pct(70)

minMargin == Pct(8)

confidenceThresholds ==
    [high   |-> [maxDistance |-> 1, minSimilarity |-> Pct(85)],
     medium |-> [maxDistance |-> 2, minSimilarity |-> Pct(75)],
     low    |-> [maxDistance |-> 2, minSimilarity |-> Pct(65)]]

\* the initial bestDistance, above every distance
Infinity == 1000000

-----------------------------------------------------------------------------
(* Fuzzy matching                                                          *)

\* 1 - distance / max(a.length, b.length), for a maximum above 0
SimilarityOf(distance, lenA, lenB) ==
    Frac(Max2(lenA, lenB) - distance, Max2(lenA, lenB))

similarityScore(a, b) ==
    IF a = b THEN Frac(1, 1)
    ELSE LET distance == damerauLevenshteinDistance(toLowerCase(a), toLowerCase(b))
             maxLen   == Max2(Len(a), Len(b))
         IN  IF maxLen = 0 THEN Frac(1, 1) ELSE Frac(maxLen - distance, maxLen)

\* the quick skip of the candidate loop
LengthSkip(ident, validName) == Abs(Len(ident) - Len(validName)) > maxEditDistance

\* what one iteration of the candidate loop computes from the candidate alone
Measure(ident, identifierLower, validName) ==
    IF LengthSkip(ident, validName)
    THEN [skipped |-> TRUE, distance |-> Infinity, similarity |-> Frac(0, 1)]
    ELSE LET distance == damerauLevenshteinDistance(identifierLower, toLowerCase(validName))
         IN  [skipped    |-> FALSE,
              distance   |-> distance,
              similarity |-> SimilarityOf(distance, Len(ident), Len(validName))]

\* what one iteration does to the four running variables st, given its measure c
MatchStep(validName, c, st) ==
    IF c.skipped THEN st
    ELSE IF FracGT(c.similarity, st.bestSimilarity)
    THEN [bestMatch            |-> validName,
          bestDistance         |-> c.distance,
          bestSimilarity       |-> c.similarity,
          secondBestSimilarity |-> st.bestSimilarity]
    ELSE IF FracGT(c.similarity, st.secondBestSimilarity)
    THEN [st EXCEPT !.secondBestSimilarity = c.similarity]
    ELSE st

\* for (const validName of dictionary): the measures do not depend on the
\* running variables, so they are taken first and the updates run over them
MatchLoop(ident, identifierLower, dict, st) ==
    Bind(SubSeq([k \in 1..Len(dict) |-> Measure(ident, identifierLower, dict[k])],
                1, Len(dict)),
         LAMBDA measured :
             For(1, Len(dict),
                 LAMBDA k, running : MatchStep(dict[k], measured[k], running),
                 st))

\* confidence and shouldAutoFix as the tier cascade assigns them
\* the tier cascade with a strict comparison at the medium similarity
TierOfStrictMedium(bestDistance, bestSimilarity) ==
    IF /\ bestDistance <= confidenceThresholds.high.maxDistance
       /\ FracGE(bestSimilarity, confidenceThresholds.high.minSimilarity)
    THEN [confidence |-> "high", shouldAutoFix |-> TRUE]
    ELSE IF /\ bestDistance <= confidenceThresholds.medium.maxDistance
            /\ FracGT(bestSimilarity, confidenceThresholds.medium.minSimilarity)
    THEN [confidence |-> "medium", shouldAutoFix |-> TRUE]
    ELSE IF /\ bestDistance <= confidenceThresholds.low.maxDistance
            /\ FracGE(bestSimilarity, confidenceThresholds.low.minSimilarity)
    THEN [confidence |-> "low", shouldAutoFix |-> FALSE]
    ELSE [confidence |-> Null, shouldAutoFix |-> FALSE]

\* the tier cascade with no low tier
TierOfWithoutLow(bestDistance, bestSimilarity) ==
    IF /\ bestDistance <= confidenceThresholds.high.maxDistance
       /\ FracGE(bestSimilarity, confidenceThresholds.high.minSimilarity)
    THEN [confidence |-> "high", shouldAutoFix |-> TRUE]
    ELSE IF /\ bestDistance <= confidenceThresholds.medium.maxDistance
            /\ FracGE(bestSimilarity, confidenceThresholds.medium.minSimilarity)
    THEN [confidence |-> "medium", shouldAutoFix |-> TRUE]
    ELSE [confidence |-> Null, shouldAutoFix |-> FALSE]

\* the tier cascade with the low tier applied automatically
TierOfLowAutoFix(bestDistance, bestSimilarity) ==
    IF /\ bestDistance <= confidenceThresholds.high.maxDistance
       /\ FracGE(bestSimilarity, confidenceThresholds.high.minSimilarity)
    THEN [confidence |-> "high", shouldAutoFix |-> TRUE]
    ELSE IF /\ bestDistance <= confidenceThresholds.medium.maxDistance
            /\ FracGE(bestSimilarity, confidenceThresholds.medium.minSimilarity)
    THEN [confidence |-> "medium", shouldAutoFix |-> TRUE]
    ELSE IF /\ bestDistance <= confidenceThresholds.low.maxDistance
            /\ FracGE(bestSimilarity, confidenceThresholds.low.minSimilarity)
    THEN [confidence |-> "low", shouldAutoFix |-> TRUE]
    ELSE [confidence |-> Null, shouldAutoFix |-> FALSE]

TierOf(bestDistance, bestSimilarity) ==
    IF /\ bestDistance <= confidenceThresholds.high.maxDistance
       /\ FracGE(bestSimilarity, confidenceThresholds.high.minSimilarity)
    THEN [confidence |-> "high", shouldAutoFix |-> TRUE]
    ELSE IF /\ bestDistance <= confidenceThresholds.medium.maxDistance
            /\ FracGE(bestSimilarity, confidenceThresholds.medium.minSimilarity)
    THEN [confidence |-> "medium", shouldAutoFix |-> TRUE]
    ELSE IF /\ bestDistance <= confidenceThresholds.low.maxDistance
            /\ FracGE(bestSimilarity, confidenceThresholds.low.minSimilarity)
    THEN [confidence |-> "low", shouldAutoFix |-> FALSE]
    ELSE [confidence |-> Null, shouldAutoFix |-> FALSE]

\* the gate with the margin test alone, without the distance and similarity floor
GatePassesWithoutFloor(bestMatch, bestDistance, bestSimilarity, margin) ==
    /\ bestMatch # Null
    /\ FracGE(margin, minMargin)

\* the conditions in front of the tier cascade
GatePasses(bestMatch, bestDistance, bestSimilarity, margin) ==
    /\ bestMatch # Null
    /\ bestDistance <= maxEditDistance
    /\ FracGE(bestSimilarity, minSimilarity)
    /\ FracGE(margin, minMargin)

\* findBestMatch without the early return for a name that is in the dictionary
findBestMatchScoringMembers(ident, dict) ==
    Bind(MatchLoop(ident, toLowerCase(ident), dict,
                   [bestMatch            |-> Null,
                    bestDistance         |-> Infinity,
                    bestSimilarity       |-> Frac(0, 1),
                    secondBestSimilarity |-> Frac(0, 1)]),
         LAMBDA st :
    Bind(FracSub(st.bestSimilarity, st.secondBestSimilarity),
         LAMBDA margin :
    Bind(IF GatePasses(st.bestMatch, st.bestDistance, st.bestSimilarity, margin)
         THEN TierOf(st.bestDistance, st.bestSimilarity)
         ELSE [confidence |-> Null, shouldAutoFix |-> FALSE],
         LAMBDA tier :
        [match         |-> IF tier.confidence # Null THEN st.bestMatch ELSE Null,
         distance      |-> st.bestDistance,
         similarity    |-> st.bestSimilarity,
         margin        |-> margin,
         confidence    |-> tier.confidence,
         shouldAutoFix |-> tier.shouldAutoFix])))

findBestMatch(ident, dict) ==
    IF Includes(dict, ident)
    THEN [match |-> ident, distance |-> 0, similarity |-> Frac(1, 1),
          margin |-> Frac(1, 1), confidence |-> Null, shouldAutoFix |-> FALSE]
    ELSE
        Bind(MatchLoop(ident, toLowerCase(ident), dict,
                       [bestMatch            |-> Null,
                        bestDistance         |-> Infinity,
                        bestSimilarity       |-> Frac(0, 1),
                        secondBestSimilarity |-> Frac(0, 1)]),
             LAMBDA st :
        Bind(FracSub(st.bestSimilarity, st.secondBestSimilarity),
             LAMBDA margin :
        Bind(IF GatePasses(st.bestMatch, st.bestDistance, st.bestSimilarity, margin)
             THEN TierOf(st.bestDistance, st.bestSimilarity)
             ELSE [confidence |-> Null, shouldAutoFix |-> FALSE],
             LAMBDA tier :
            [match         |-> IF tier.confidence # Null THEN st.bestMatch ELSE Null,
             distance      |-> st.bestDistance,
             similarity    |-> st.bestSimilarity,
             margin        |-> margin,
             confidence    |-> tier.confidence,
             shouldAutoFix |-> tier.shouldAutoFix])))

findBestClassMatch(className) == findBestMatch(className, CLASS_NAMES)

\* the dictionary both analyzeCode and findBestMethodMatch select for a context
SelectDictionary(contextType) ==
    IF contextType # Null /\ Truthy(ContextLookup(contextType))
    THEN ContextLookup(contextType)
    ELSE [kind |-> "array", items |-> ALL_METHODS]

findBestMethodMatch(methodName, contextType) ==
    findBestMatch(methodName, SelectDictionary(contextType).items)

-----------------------------------------------------------------------------
(* Regular expressions of the scanner.  Every quantifier of the patterns   *)
(* is greedy and is followed by a character outside its class, so a match  *)
(* at a position is unique and needs no backtracking.  A match is          *)
(* [ok, index, end, groups]: groups[1] is the whole match, groups[k+1] the *)
(* k-th capture; end is the lastIndex the g flag leaves.                   *)

NoMatch == [ok |-> FALSE, index |-> -1, end |-> -1, groups |-> <<>>]

\* offset just after the longest run of characters of cls starting at offset i
RECURSIVE RunEnd(_, _, _)
RunEnd(s, i, cls) ==
    IF i < Len(s) /\ CharAt(s, i) \in cls THEN RunEnd(s, i + 1, cls) ELSE i

\* \b in front of a word character at offset p
WordBoundaryBefore(s, p) == p = 0 \/ ~IsWordChar(CharAt(s, p - 1))

\* /\bnew\s+([A-Z]\w*)\s*\(/ at offset p
ClassPatternAt(s, p) ==
    IF ~(WordBoundaryBefore(s, p) /\ Slice(s, p, p + 3) = "new") THEN NoMatch
    ELSE
        Bind(RunEnd(s, p + 3, SpaceSet), LAMBDA q1 :
        Bind(RunEnd(s, q1 + 1, WordSet), LAMBDA q2 :
        Bind(RunEnd(s, q2, SpaceSet), LAMBDA q3 :
            IF /\ q1 > p + 3
               /\ CharAt(s, q1) \in UpperSet
               /\ CharAt(s, q3) = "("
            THEN [ok |-> TRUE, index |-> p, end |-> q3 + 1,
                  groups |-> <<Slice(s, p, q3 + 1), Slice(s, q1, q2)>>]
            ELSE NoMatch)))

\* /(\b\w+)\.(\w+)\s*\(/ at offset p
MethodPatternAt(s, p) ==
    IF ~(WordBoundaryBefore(s, p) /\ IsWordChar(CharAt(s, p))) THEN NoMatch
    ELSE
        Bind(RunEnd(s, p, WordSet), LAMBDA r1 :
        Bind(RunEnd(s, r1 + 1, WordSet), LAMBDA m1 :
        Bind(RunEnd(s, m1, SpaceSet), LAMBDA m2 :
            IF /\ CharAt(s, r1) = "."
               /\ m1 > r1 + 1
               /\ CharAt(s, m2) = "("
            THEN [ok |-> TRUE, index |-> p, end |-> m2 + 1,
                  groups |-> <<Slice(s, p, m2 + 1), Slice(s, p, r1), Slice(s, r1 + 1, m1)>>]
            ELSE NoMatch)))

\* the keyword of (?:var|let|const) at offset p, "" if none
DeclarationKeywordAt(s, p) ==
    IF Slice(s, p, p + 3) = "var" THEN "var"
    ELSE IF Slice(s, p, p + 3) = "let" THEN "let"
    ELSE IF Slice(s, p, p + 5) = "const" THEN "const"
    ELSE ""

\* new\s+(\w+)\s*\(  at offset a5, closing a binding that starts at p and
\* names the variable s[a2..a3)
NewTailAt(s, p, a2, a3, a5) ==
    IF Slice(s, a5, a5 + 3) # "new" THEN NoMatch
    ELSE
        Bind(RunEnd(s, a5 + 3, SpaceSet), LAMBDA b1 :
        Bind(RunEnd(s, b1, WordSet), LAMBDA b2 :
        Bind(RunEnd(s, b2, SpaceSet), LAMBDA b3 :
            IF /\ b1 > a5 + 3
               /\ b2 > b1
               /\ CharAt(s, b3) = "("
            THEN [ok |-> TRUE, index |-> p, end |-> b3 + 1,
                  groups |-> <<Slice(s, p, b3 + 1), Slice(s, a2, a3), Slice(s, b1, b2)>>]
            ELSE NoMatch)))

\* gs\.getUser\s*\(  or  gs\.getSession\s*\(  (call) at offset a5
CallTailAt(s, p, a2, a3, a5, call) ==
    IF Slice(s, a5, a5 + Len(call)) # call THEN NoMatch
    ELSE
        Bind(RunEnd(s, a5 + Len(call), SpaceSet), LAMBDA c1 :
            IF CharAt(s, c1) = "("
            THEN [ok |-> TRUE, index |-> p, end |-> c1 + 1,
                  groups |-> <<Slice(s, p, c1 + 1), Slice(s, a2, a3)>>]
            ELSE NoMatch)

\* /(?:var|let|const)\s+(\w+)\s*=\s*<tail>/ at offset p, where <tail> is
\* new\s+(\w+)\s*\(  or  gs\.getUser\s*\(  or  gs\.getSession\s*\(
BindingPatternAt(s, p, tail) ==
    IF DeclarationKeywordAt(s, p) = "" THEN NoMatch
    ELSE
        Bind(p + Len(DeclarationKeywordAt(s, p)), LAMBDA a1 :
        Bind(RunEnd(s, a1, SpaceSet), LAMBDA a2 :
        Bind(RunEnd(s, a2, WordSet), LAMBDA a3 :
        Bind(RunEnd(s, a3, SpaceSet), LAMBDA a4 :
        Bind(RunEnd(s, a4 + 1, SpaceSet), LAMBDA a5 :
            IF /\ a2 > a1
               /\ a3 > a2
               /\ CharAt(s, a4) = "="
            THEN IF tail = "new"
                 THEN NewTailAt(s, p, a2, a3, a5)
                 ELSE CallTailAt(s, p, a2, a3, a5, tail)
            ELSE NoMatch)))))

PatternAt(pattern, s, p) ==
    CASE pattern = "classPattern"      -> ClassPatternAt(s, p)
      [] pattern = "methodPattern"     -> MethodPatternAt(s, p)
      [] pattern = "newPattern"        -> BindingPatternAt(s, p, "new")
      [] pattern = "getUserPattern"    -> BindingPatternAt(s, p, "gs.getUser")
      [] pattern = "getSessionPattern" -> BindingPatternAt(s, p, "gs.getSession")

\* the least element of a non-empty set of offsets
Least(offsets) == CHOOSE x \in offsets : \A y \in offsets : x <= y

\* the matches of  while ((match = pattern.exec(s)) !== null)  from lastIndex on:
\* exec matches at the first offset from lastIndex where the pattern matches and
\* leaves lastIndex after the match
RECURSIVE ExecAll(_, _, _)
ExecAll(pattern, s, lastIndex) ==
    Bind({ p \in lastIndex..(Len(s) - 1) : PatternAt(pattern, s, p).ok }, LAMBDA starts :
        IF starts = {} THEN <<>>
        ELSE Bind(PatternAt(pattern, s, Least(starts)), LAMBDA m :
                <<m>> \o ExecAll(pattern, s, m.end)))

-----------------------------------------------------------------------------
(* Type inference                                                          *)

\* Map.prototype.set
MapSet(map, key, value) == (key :> value) @@ map

\* the loop over newPattern: only known classes are tracked
RECURSIVE TrackNew(_, _, _)
TrackNew(matches, k, map) ==
    IF k > Len(matches) THEN map
    ELSE LET varName   == matches[k].groups[2]
             className == matches[k].groups[3]
         IN  TrackNew(matches, k + 1,
                      IF Includes(CLASS_NAMES, className)
                      THEN MapSet(map, varName, className)
                      ELSE map)

\* the loops over getUserPattern and getSessionPattern
RECURSIVE TrackFixed(_, _, _, _)
TrackFixed(matches, k, type, map) ==
    IF k > Len(matches) THEN map
    ELSE TrackFixed(matches, k + 1, type, MapSet(map, matches[k].groups[2], type))

inferVariableTypes(text) ==
    LET afterNew  == TrackNew(ExecAll("newPattern", text, 0), 1, <<>>)
        afterUser == TrackFixed(ExecAll("getUserPattern", text, 0), 1, "GlideUser", afterNew)
    IN  TrackFixed(ExecAll("getSessionPattern", text, 0), 1, "GlideSession", afterUser)

getReceiverType(receiver, map) ==
    IF Truthy(ContextLookup(receiver)) THEN receiver
    ELSE IF receiver \in DOMAIN map THEN map[receiver]
    ELSE Null

-----------------------------------------------------------------------------
(* Code correction                                                         *)

\* what an occurrence holds when findBestMatch was not called for it
NotMatched ==
    [match |-> Null, distance |-> Infinity, similarity |-> Frac(0, 1),
     margin |-> Frac(0, 1), confidence |-> Null, shouldAutoFix |-> FALSE]

\* one iteration of the loop over classPattern
ClassOccurrence(m) ==
    LET fullMatch == m.groups[1]
        className == m.groups[2]
        valid     == Includes(CLASS_NAMES, className)
    IN  [type       |-> "class",
         name       |-> className,
         receiver   |-> Null,
         context    |-> Null,
         dictionary |-> CLASS_NAMES,
         threw      |-> FALSE,
         valid      |-> valid,
         result     |-> IF valid THEN NotMatched ELSE findBestClassMatch(className),
         startIndex |-> m.index + IndexOf(fullMatch, className),
         endIndex   |-> m.index + IndexOf(fullMatch, className) + Len(className)]

\* one iteration of the loop over methodPattern; dictionary.includes throws a
\* TypeError when the selected dictionary is not an array
MethodOccurrence(m, map) ==
    LET receiver    == m.groups[2]
        methodName  == m.groups[3]
        contextType == getReceiverType(receiver, map)
        dict        == SelectDictionary(contextType)
        threw       == dict.kind # "array"
        valid       == ~threw /\ Includes(dict.items, methodName)
        methodStartIndex == m.index + Len(receiver) + 1
    IN  [type       |-> "method",
         name       |-> methodName,
         receiver   |-> receiver,
         context    |-> contextType,
         dictionary |-> dict.items,
         threw      |-> threw,
         valid      |-> valid,
         result     |-> IF threw \/ valid THEN NotMatched
                        ELSE findBestMethodMatch(methodName, contextType),
         startIndex |-> methodStartIndex,
         endIndex   |-> methodStartIndex + Len(methodName)]

\* if (result.match && result.confidence)
Qualifies(o) ==
    /\ ~o.threw
    /\ ~o.valid
    /\ o.result.match # Null
    /\ o.result.confidence # Null

\* the record with its span taken one character early, at the dot or space
CorrectionOfFromSeparator(o) ==
    [original   |-> o.name,
     corrected  |-> o.result.match,
     startIndex |-> o.startIndex - 1,
     endIndex   |-> o.endIndex - 1,
     confidence |-> o.result.confidence,
     type       |-> o.type,
     context    |-> o.context,
     distance   |-> o.result.distance,
     similarity |-> o.result.similarity]

CorrectionOf(o) ==
    [original   |-> o.name,
     corrected  |-> o.result.match,
     startIndex |-> o.startIndex,
     endIndex   |-> o.endIndex,
     confidence |-> o.result.confidence,
     type       |-> o.type,
     context    |-> o.context,
     distance   |-> o.result.distance,
     similarity |-> o.result.similarity]

\* the list left in the order of the scan
KeepScanOrder(list) == list

\* the list in the reverse of the order of the scan
ReverseScanOrder(list) == [i \in 1..Len(list) |-> list[Len(list) + 1 - i]]

\* list.sort((a, b) => b.startIndex - a.startIndex): stable, descending
RECURSIVE SortDescending(_)
SortDescending(list) ==
    IF list = <<>> THEN <<>>
    ELSE LET front  == SortDescending(SubSeq(list, 1, Len(list) - 1))
             x      == list[Len(list)]
             before == SelectSeq(front, LAMBDA c : c.startIndex >= x.startIndex)
             after  == SelectSeq(front, LAMBDA c : c.startIndex < x.startIndex)
         IN  before \o <<x>> \o after

\* the loop over classPattern
ClassScan(text) ==
    Bind(ExecAll("classPattern", text, 0), LAMBDA matches :
        SubSeq([i \in 1..Len(matches) |-> ClassOccurrence(matches[i])], 1, Len(matches)))

\* the iterations of the loop over methodPattern up to the one that throws
UpToThrow(occs) ==
    LET throwing == { i \in 1..Len(occs) : occs[i].threw }
    IN  IF throwing = {} THEN occs
        ELSE SubSeq(occs, 1, CHOOSE i \in throwing : \A k \in throwing : i <= k)

\* the loop over methodPattern
MethodScan(text, map) ==
    Bind(ExecAll("methodPattern", text, 0), LAMBDA matches :
    Bind(SubSeq([i \in 1..Len(matches) |-> MethodOccurrence(matches[i], map)], 1, Len(matches)),
         LAMBDA occs : UpToThrow(occs)))

\* the occurrences the two scans examine, up to the one that throws
ScanOccurrences(text, map) == ClassScan(text) \o MethodScan(text, map)

\* every record pushed to corrections, whatever its shouldAutoFix
PushedAsCorrections(occs, auto) ==
    IF auto
    THEN Bind(SelectSeq(occs, Qualifies),
              LAMBDA chosen : [i \in 1..Len(chosen) |-> CorrectionOf(chosen[i])])
    ELSE <<>>

\* the records pushed to corrections (auto = TRUE) or suggestions (auto = FALSE)
Pushed(occs, auto) ==
    Bind(SelectSeq(occs, LAMBDA o : Qualifies(o) /\ o.result.shouldAutoFix = auto),
         LAMBDA chosen : [i \in 1..Len(chosen) |-> CorrectionOf(chosen[i])])

analyzeCode(text) ==
    Bind(inferVariableTypes(text), LAMBDA map :
    Bind(ScanOccurrences(text, map), LAMBDA occs :
    Bind(\E i \in 1..Len(occs) : occs[i].threw, LAMBDA threw :
        [threw       |-> threw,
         typeMap     |-> map,
         scanned     |-> occs,
         corrections |-> IF threw THEN <<>> ELSE SortDescending(Pushed(occs, TRUE)),
         suggestions |-> IF threw THEN <<>> ELSE SortDescending(Pushed(occs, FALSE))])))

\* the splice of one correction into the running text
Splice(text, correction) ==
    Slice(text, 0, correction.startIndex)
        \o correction.corrected
        \o SliceFrom(text, correction.endIndex)

RECURSIVE applyCorrections(_, _)
applyCorrections(text, list) ==
    IF list = <<>> THEN text
    ELSE applyCorrections(Splice(text, list[1]), Tail(list))

\* Array.prototype.join
RECURSIVE Join(_, _)
Join(list, sep) ==
    IF list = <<>> THEN ""
    ELSE IF Len(list) = 1 THEN list[1]
    ELSE list[1] \o sep \o Join(Tail(list), sep)

\* TierMessage without the test that the tier has corrections
TierMessageUnguarded(list, tier, prefix, infix) ==
    LET ofTier == SelectSeq(list, LAMBDA c : c.confidence = tier)
        pairs  == [i \in 1..Len(ofTier) |-> ofTier[i].original \o " → " \o ofTier[i].corrected]
    IN  <<prefix \o ToString(Len(ofTier)) \o infix \o Join(Unique(pairs), ", ")>>

\* the message of one tier, if the tier has corrections
TierMessage(list, tier, prefix, infix) ==
    LET ofTier     == SelectSeq(list, LAMBDA c : c.confidence = tier)
        pairs      == [i \in 1..Len(ofTier) |-> ofTier[i].original \o " → " \o ofTier[i].corrected]
        uniqueFixes == Unique(pairs)
    IN  IF Len(ofTier) > 0
        THEN <<prefix \o ToString(Len(ofTier)) \o infix \o Join(uniqueFixes, ", ")>>
        ELSE <<>>

\* the fix messages with the medium tier in front
FixMessagesMediumFirst(list) ==
    TierMessage(list, "medium", "Auto-corrected ", " likely typo(s): ")
        \o TierMessage(list, "high", "Fixed ", " typo(s): ")

FixMessages(list) ==
    TierMessage(list, "high", "Fixed ", " typo(s): ")
        \o TierMessage(list, "medium", "Auto-corrected ", " likely typo(s): ")

\* the suggestion messages with repeated messages merged
SuggestionMessagesMerged(list) ==
    Unique([i \in 1..Len(list) |->
        "Possible typo: \"" \o list[i].original \o "\" - did you mean \""
            \o list[i].corrected \o "\"?"])

SuggestionMessages(list) ==
    [i \in 1..Len(list) |->
        "Possible typo: \"" \o list[i].original \o "\" - did you mean \""
            \o list[i].corrected \o "\"?"]

-----------------------------------------------------------------------------
(* The regex pass of applyServiceNowFixes.  The typo lists are excerpts:   *)
(* they hold the patterns of the source that match a text of Sources; no   *)
(* other typo pattern and none of the seven "intelligent" fixes (gs.now,   *)
(* gs.nowDateTime, getValue('sys_id'), gs.print, addQuery concatenation,   *)
(* addEncodedQuery, string equality) matches such a text, so those steps   *)
(* leave processed and fixes as they are.  Every pattern here is a literal *)
(* string with the g flag.                                                 *)

GLIDE_RECORD_TYPOS == << <<".gtValue(", ".getValue(">>, <<".udpate(", ".update(">> >>

CLASS_NAME_TYPOS == << <<"GlideRecrod", "GlideRecord">>, <<"GlideDat", "GlideDate">> >>

GS_TYPOS == << <<"gs.inf(", "gs.info(">> >>

typoCategories ==
    << [name |-> "GlideRecord method", list |-> GLIDE_RECORD_TYPOS],
       [name |-> "ServiceNow class name", list |-> CLASS_NAME_TYPOS],
       [name |-> "gs method", list |-> GS_TYPOS] >>

\* String.prototype.replace with a global literal pattern: every occurrence,
\* left to right, none overlapping; count is the number of replacements
RECURSIVE ReplaceAll(_, _, _)
ReplaceAll(text, pattern, replacement) ==
    Bind(IndexOf(text, pattern), LAMBDA i :
        IF i = -1 THEN [code |-> text, count |-> 0]
        ELSE Bind(ReplaceAll(SliceFrom(text, i + Len(pattern)), pattern, replacement),
                  LAMBDA rest :
                      [code  |-> Slice(text, 0, i) \o replacement \o rest.code,
                       count |-> rest.count + 1]))

applyTypoFixes(text, typoList) ==
    For(1, Len(typoList),
        LAMBDA k, st :
            Bind(ReplaceAll(st.code, typoList[k][1], typoList[k][2]), LAMBDA r :
                [code |-> r.code, count |-> st.count + r.count]),
        [code |-> text, count |-> 0])

\* the message of a category with count > 0 fixes
TypoMessage(name, count) ==
    "Fixed " \o ToString(count) \o " " \o name \o " typo" \o (IF count > 1 THEN "s" ELSE "")

\* applyServiceNowFixes up to the fuzzy pass
RegexFixes(text) ==
    For(1, Len(typoCategories),
        LAMBDA k, st :
            Bind(applyTypoFixes(st.processed, typoCategories[k].list), LAMBDA r :
                [processed |-> r.code,
                 fixes     |-> IF r.count > 0
                               THEN Append(st.fixes, TypoMessage(typoCategories[k].name, r.count))
                               ELSE st.fixes]),
        [processed |-> text, fixes |-> <<>>])

-----------------------------------------------------------------------------
(* applyGenericFixes (genericFixes.js).  The steps in front of the boolean *)
(* simplification act on '\r\n', on spaces or tabs at the end of a line,   *)
(* on ';', on a keyword in front of '(' and on runs of '\n'; no text of    *)
(* Comparisons holds one of them, so those steps leave processed and fixes *)
(* as they are.                                                            *)

\* the offset of the first character from p on that is not white space
RECURSIVE SkipSpaces(_, _)
SkipSpaces(s, p) == IF CharAt(s, p) \in SpaceSet THEN SkipSpaces(s, p + 1) ELSE p

\* /\s*===?\s*true\b/ at offset p: the offset behind the match, -1 if none
BooleanComparisonAt(s, p) ==
    Bind(SkipSpaces(s, p), LAMBDA eq :
        IF Slice(s, eq, eq + 2) # "=="
        THEN -1
        ELSE Bind(SkipSpaces(s, IF CharAt(s, eq + 2) = "=" THEN eq + 3 ELSE eq + 2),
                  LAMBDA t :
                      IF Slice(s, t, t + 4) = "true" /\ ~IsWordChar(CharAt(s, t + 4))
                      THEN t + 4
                      ELSE -1))

\* processed.replace(/\s*===?\s*true\b/g, '')
RECURSIVE SimplifyBooleans(_)
SimplifyBooleans(s) ==
    Bind({ p \in 0..(Len(s) - 1) : BooleanComparisonAt(s, p) # -1 }, LAMBDA starts :
        IF starts = {} THEN s
        ELSE Slice(s, 0, Least(starts))
                 \o SimplifyBooleans(SliceFrom(s, BooleanComparisonAt(s, Least(starts)))))

applyGenericFixes(text) ==
    Bind(SimplifyBooleans(text), LAMBDA simplified :
        [processed |-> simplified,
         fixes     |-> IF simplified # text
                       THEN <<"Simplified boolean comparisons (removed == true)">>
                       ELSE <<>>])

-----------------------------------------------------------------------------
(* fixMissingClosingBrackets (jsonFixes.js)                                *)

\* one iteration of the scan over the characters of the code
BracketStep(char, st) ==
    IF st.escaped THEN [st EXCEPT !.escaped = FALSE]
    ELSE IF char = "\\" /\ st.inString THEN [st EXCEPT !.escaped = TRUE]
    ELSE IF char = "\"" THEN [st EXCEPT !.inString = ~st.inString]
    ELSE IF st.inString THEN st
    ELSE IF char = "{" \/ char = "[" THEN [st EXCEPT !.stack = Append(st.stack, char)]
    ELSE IF char = "}"
    THEN (IF st.stack # <<>> /\ st.stack[Len(st.stack)] = "{"
          THEN [st EXCEPT !.stack = SubSeq(st.stack, 1, Len(st.stack) - 1)]
          ELSE st)
    ELSE IF char = "]"
    THEN (IF st.stack # <<>> /\ st.stack[Len(st.stack)] = "["
          THEN [st EXCEPT !.stack = SubSeq(st.stack, 1, Len(st.stack) - 1)]
          ELSE st)
    ELSE st

\* the stack of unmatched opening brackets the scan leaves
UnmatchedOpeners(text) ==
    For(0, Len(text) - 1,
        LAMBDA i, st : BracketStep(CharAt(text, i), st),
        [stack |-> <<>>, inString |-> FALSE, escaped |-> FALSE]).stack

\* String.prototype.trimEnd
RECURSIVE trimEnd(_)
trimEnd(s) ==
    IF s # "" /\ CharAt(s, Len(s) - 1) \in SpaceSet
    THEN trimEnd(Slice(s, 0, Len(s) - 1))
    ELSE s

\* for (let i = stack.length - 1; i >= 0; i--) result += '\n' + closer
AppendClosers(trimmed, stack) ==
    For(1, Len(stack),
        LAMBDA k, out :
            out \o "\n" \o (IF stack[Len(stack) + 1 - k] = "{" THEN "}" ELSE "]"),
        trimmed)

\* the messages for the missing braces and the missing brackets
ClosingMessages(stack) ==
    Bind(Len(SelectSeq(stack, LAMBDA c : c = "{")), LAMBDA missingBraces :
    Bind(Len(SelectSeq(stack, LAMBDA c : c = "[")), LAMBDA missingBrackets :
        (IF missingBraces > 0
         THEN <<"Added " \o ToString(missingBraces) \o " missing closing brace(s) '}'">>
         ELSE <<>>)
        \o (IF missingBrackets > 0
            THEN <<"Added " \o ToString(missingBrackets)
                       \o " missing closing bracket(s) ']'">>
            ELSE <<>>)))

fixMissingClosingBrackets(text) ==
    Bind(UnmatchedOpeners(text), LAMBDA stack :
        IF stack = <<>> THEN [code |-> text, fixes |-> <<>>]
        ELSE [code  |-> AppendClosers(trimEnd(text), stack),
              fixes |-> ClosingMessages(stack)])

-----------------------------------------------------------------------------
(* Inputs                                                                  *)

\* longest input text, in statements
MaxStatements == 2

\* calls of fuzzyCorrectCode in a row, each on the output of the one before
MaxRuns == 2

\* longest constructed dictionary handed to findBestMatch
MaxDictionary == 3

\* script lines the input texts are made of
Statements ==
    {"var gr = new GlideRecord();\n",
     "var gr = new JSON();\n",
     "var gr = new GlideRecrod();\n",
     "var gr = gs.getUser();\n",
     "var gr = gs.getSession();\n",
     "var gs = new GlideUser();\n",
     "gr.udpate();\n",
     "gr.gtValue();\n",
     "gr.getValuee();\n",
     "gr.cnaRaed();\n",
     "gr.getID();\n",
     "gs.inf();\n",
     "Object.prototype.toString.call(gr);\n"}

RECURSIVE TextsOf(_)
TextsOf(n) ==
    IF n = 0 THEN {""}
    ELSE { t \o st : t \in TextsOf(n - 1), st \in Statements }

Inputs == UNION { TextsOf(n) : n \in 0..MaxStatements }

\* a declaration for every canonical class name
Declarations ==
    { "var gr = new " \o CLASS_NAMES[k] \o "();\n" : k \in 1..Len(CLASS_NAMES) }

\* the texts handed to applyServiceNowFixes
Sources == Inputs \cup Declarations

\* the comparisons handed to applyGenericFixes: an operand, an operator with
\* or without a space on either side, 'true', and what follows it
Comparisons ==
    { [left |-> "a", before |-> b, operator |-> o, after |-> a, tail |-> t] :
          b \in {"", " "}, o \in {"==", "===", "!=", "!=="}, a \in {"", " "},
          t \in {"", ")", "x", " && b"} }

TextOf(c) == c.left \o c.before \o c.operator \o c.after \o "true" \o c.tail

\* the longest text handed to fixMissingClosingBrackets
MaxJson == 3

\* the characters of those texts
JsonChars == {"{", "}", "[", "]", "\"", "\\", "a", " "}

RECURSIVE JsonTextsOf(_)
JsonTextsOf(n) ==
    IF n = 0 THEN {""}
    ELSE JsonTextsOf(n - 1) \cup { s \o c : s \in JsonTextsOf(n - 1), c \in JsonChars }

JsonTexts == JsonTextsOf(MaxJson)

\* names the constructed dictionaries are made of, and the probes looked up in them
DictionaryNames ==
    {"getValue", "setValue", "getValues", "get", "info", "canRead", "addQuery", "addOrderBy"}

Probes ==
    {"getValue", "GETVALUE", "gtValue", "detValue", "getValuee", "getVal",
     "inf", "ge", "cnaRaed", "canread", "xyz", "info", "addOery"}

\* the longest string handed to damerauLevenshteinDistance and similarityScore
MaxLength == 3

\* the characters of those strings: one letter in both cases, and the
\* character whose lower-case form is two characters long
Letters == {"a", "A", DottedCapitalI}

RECURSIVE StringsOf(_)
StringsOf(n) ==
    IF n = 0 THEN {""}
    ELSE StringsOf(n - 1) \cup { s \o c : s \in StringsOf(n - 1), c \in Letters }

Strings == StringsOf(MaxLength)

RECURSIVE ListsOf(_, _)
ListsOf(names, n) ==
    IF n = 0 THEN {<<>>}
    ELSE { Append(l, x) : l \in ListsOf(names, n - 1), x \in names }

Dictionaries == UNION { ListsOf(DictionaryNames, n) : n \in 0..MaxDictionary }

-----------------------------------------------------------------------------
(* State machine                                                           *)

NoRun ==
    [code |-> "", corrections |-> <<>>, suggestions |-> <<>>,
     processed |-> "", fixes |-> <<>>, messages |-> <<>>]

NoPass == [processed |-> "", fixes |-> <<>>]

NoAnswer == [processed |-> "", fixes |-> <<>>, suggestions |-> <<>>]

NoRepair == [code |-> "", fixes |-> <<>>]

\* a text is handed to fuzzyCorrectCode
InitCode ==
    /\ mode = "code"
    /\ pc = "start"
    /\ code \in Inputs
    /\ run = 1
    /\ typeMap = <<>>
    /\ scanned = <<>>
    /\ corrections = <<>>
    /\ suggestions = <<>>
    /\ processed = ""
    /\ fixes = <<>>
    /\ messages = <<>>
    /\ first = NoRun
    /\ identifier = ""
    /\ dictionary = <<>>
    /\ result = NotMatched
    /\ strA = ""
    /\ strB = ""
    /\ dist = 0
    /\ score = Frac(0, 1)
    /\ source = ""
    /\ passOne = NoPass
    /\ answer = NoAnswer
    /\ input = ""
    /\ output = NoPass
    /\ again = NoRepair

\* an identifier and a constructed dictionary are handed to findBestMatch
InitMatch ==
    /\ mode = "match"
    /\ pc = "call"
    /\ code = ""
    /\ run = 1
    /\ typeMap = <<>>
    /\ scanned = <<>>
    /\ corrections = <<>>
    /\ suggestions = <<>>
    /\ processed = ""
    /\ fixes = <<>>
    /\ messages = <<>>
    /\ first = NoRun
    /\ identifier \in Probes
    /\ dictionary \in Dictionaries
    /\ result = NotMatched
    /\ strA = ""
    /\ strB = ""
    /\ dist = 0
    /\ score = Frac(0, 1)
    /\ source = ""
    /\ passOne = NoPass
    /\ answer = NoAnswer
    /\ input = ""
    /\ output = NoPass
    /\ again = NoRepair

\* two strings are handed to damerauLevenshteinDistance and similarityScore
InitDistance ==
    /\ mode = "distance"
    /\ pc = "call"
    /\ code = ""
    /\ run = 1
    /\ typeMap = <<>>
    /\ scanned = <<>>
    /\ corrections = <<>>
    /\ suggestions = <<>>
    /\ processed = ""
    /\ fixes = <<>>
    /\ messages = <<>>
    /\ first = NoRun
    /\ identifier = ""
    /\ dictionary = <<>>
    /\ result = NotMatched
    /\ strA \in Strings
    /\ strB \in Strings
    /\ dist = 0
    /\ score = Frac(0, 1)
    /\ source = ""
    /\ passOne = NoPass
    /\ answer = NoAnswer
    /\ input = ""
    /\ output = NoPass
    /\ again = NoRepair

\* a text is handed to applyServiceNowFixes
InitFixes ==
    /\ mode = "fixes"
    /\ pc = "entry"
    /\ code = ""
    /\ run = 1
    /\ typeMap = <<>>
    /\ scanned = <<>>
    /\ corrections = <<>>
    /\ suggestions = <<>>
    /\ processed = ""
    /\ fixes = <<>>
    /\ messages = <<>>
    /\ first = NoRun
    /\ identifier = ""
    /\ dictionary = <<>>
    /\ result = NotMatched
    /\ strA = ""
    /\ strB = ""
    /\ dist = 0
    /\ score = Frac(0, 1)
    /\ source \in Sources
    /\ passOne = NoPass
    /\ answer = NoAnswer
    /\ input = ""
    /\ output = NoPass
    /\ again = NoRepair

\* a comparison is handed to applyGenericFixes
InitGeneric ==
    /\ mode = "generic"
    /\ pc = "call"
    /\ code = ""
    /\ run = 1
    /\ typeMap = <<>>
    /\ scanned = <<>>
    /\ corrections = <<>>
    /\ suggestions = <<>>
    /\ processed = ""
    /\ fixes = <<>>
    /\ messages = <<>>
    /\ first = NoRun
    /\ identifier = ""
    /\ dictionary = <<>>
    /\ result = NotMatched
    /\ strA = ""
    /\ strB = ""
    /\ dist = 0
    /\ score = Frac(0, 1)
    /\ source = ""
    /\ passOne = NoPass
    /\ answer = NoAnswer
    /\ input \in { TextOf(c) : c \in Comparisons }
    /\ output = NoPass
    /\ again = NoRepair

\* a text is handed to fixMissingClosingBrackets
InitJson ==
    /\ mode = "json"
    /\ pc = "call"
    /\ code = ""
    /\ run = 1
    /\ typeMap = <<>>
    /\ scanned = <<>>
    /\ corrections = <<>>
    /\ suggestions = <<>>
    /\ processed = ""
    /\ fixes = <<>>
    /\ messages = <<>>
    /\ first = NoRun
    /\ identifier = ""
    /\ dictionary = <<>>
    /\ result = NotMatched
    /\ strA = ""
    /\ strB = ""
    /\ dist = 0
    /\ score = Frac(0, 1)
    /\ source = ""
    /\ passOne = NoPass
    /\ answer = NoAnswer
    /\ input \in JsonTexts
    /\ output = NoRepair
    /\ again = NoRepair

Init == InitCode \/ InitMatch \/ InitDistance \/ InitFixes \/ InitGeneric \/ InitJson

\* applyServiceNowFixes, pass 1: the typo categories; the text it leaves is
\* handed to fuzzyCorrectCode
RegexPass ==
    /\ mode = "fixes"
    /\ pc = "entry"
    /\ passOne' = RegexFixes(source)
    /\ code' = passOne'.processed
    /\ pc' = "start"
    /\ UNCHANGED <<mode, run, typeMap, scanned, corrections, suggestions,
                   processed, fixes, messages, first, identifier, dictionary, result,
                   strA, strB, dist, score, source, answer,
                   input, output, again>>

\* the return with the fixes of the fuzzy pass in front of those of pass 1
ReturnFixesFuzzyFirst ==
    /\ mode = "fixes"
    /\ pc = "returned"
    /\ answer' = [processed   |-> processed,
                  fixes       |-> fixes \o passOne.fixes,
                  suggestions |-> messages]
    /\ pc' = "done"
    /\ UNCHANGED <<mode, code, run, typeMap, scanned, corrections, suggestions,
                   processed, fixes, messages, first, identifier, dictionary, result,
                   strA, strB, dist, score, source, passOne,
                   input, output, again>>

\* applyServiceNowFixes, pass 2 has returned: processed and suggestions are
\* those of fuzzyCorrectCode, its fixes are pushed behind those of pass 1
ReturnFixes ==
    /\ mode = "fixes"
    /\ pc = "returned"
    /\ answer' = [processed   |-> processed,
                  fixes       |-> passOne.fixes \o fixes,
                  suggestions |-> messages]
    /\ pc' = "done"
    /\ UNCHANGED <<mode, code, run, typeMap, scanned, corrections, suggestions,
                   processed, fixes, messages, first, identifier, dictionary, result,
                   strA, strB, dist, score, source, passOne,
                   input, output, again>>

\* fuzzyCorrectCode, first statement: analyzeCode(code); a TypeError thrown by
\* the method scan leaves the call
AnalyzeCode ==
    /\ mode \in {"code", "fixes"}
    /\ pc = "start"
    /\ \E a \in {analyzeCode(code)} :
           /\ typeMap' = a.typeMap
           /\ scanned' = a.scanned
           /\ corrections' = a.corrections
           /\ suggestions' = a.suggestions
           /\ pc' = IF a.threw THEN "threw" ELSE "analyzed"
    /\ UNCHANGED <<mode, code, run, processed, fixes, messages, first,
                   identifier, dictionary, result, strA, strB, dist, score,
                   source, passOne, answer,
                   input, output, again>>

\* fuzzyCorrectCode: applyCorrections(code, corrections)
ApplyCorrections ==
    /\ mode \in {"code", "fixes"}
    /\ pc = "analyzed"
    /\ processed' = applyCorrections(code, corrections)
    /\ pc' = "applied"
    /\ UNCHANGED <<mode, code, run, typeMap, scanned, corrections, suggestions,
                   fixes, messages, first, identifier, dictionary, result,
                   strA, strB, dist, score,
                   source, passOne, answer,
                   input, output, again>>

\* fuzzyCorrectCode: the fix and suggestion messages, and the return
ReportFixes ==
    /\ mode \in {"code", "fixes"}
    /\ pc = "applied"
    /\ fixes' = FixMessages(corrections)
    /\ messages' = SuggestionMessages(suggestions)
    /\ pc' = "returned"
    /\ UNCHANGED <<mode, code, run, typeMap, scanned, corrections, suggestions,
                   processed, first, identifier, dictionary, result,
                   strA, strB, dist, score,
                   source, passOne, answer,
                   input, output, again>>

\* a resubmission in which the lists of the finished run stay in place
ResubmitSharingLists ==
    /\ mode = "code"
    /\ pc = "returned"
    /\ run < MaxRuns
    /\ first' = IF run = 1
                THEN [code |-> code, corrections |-> corrections,
                      suggestions |-> suggestions, processed |-> processed,
                      fixes |-> fixes, messages |-> messages]
                ELSE first
    /\ code' = processed
    /\ run' = run + 1
    /\ pc' = "start"
    /\ UNCHANGED <<mode, typeMap, scanned, corrections, suggestions, processed,
                   fixes, messages, identifier, dictionary, result,
                   strA, strB, dist, score, source, passOne, answer,
                   input, output, again>>

\* the caller hands the processed text to fuzzyCorrectCode again
Resubmit ==
    /\ mode = "code"
    /\ pc = "returned"
    /\ run < MaxRuns
    /\ first' = IF run = 1
                THEN [code |-> code, corrections |-> corrections,
                      suggestions |-> suggestions, processed |-> processed,
                      fixes |-> fixes, messages |-> messages]
                ELSE first
    /\ code' = processed
    /\ run' = run + 1
    /\ pc' = "start"
    /\ typeMap' = <<>>
    /\ scanned' = <<>>
    /\ corrections' = <<>>
    /\ suggestions' = <<>>
    /\ processed' = ""
    /\ fixes' = <<>>
    /\ messages' = <<>>
    /\ UNCHANGED <<mode, identifier, dictionary, result, strA, strB, dist, score,
                   source, passOne, answer,
                   input, output, again>>

\* findBestMatch(identifier, dictionary)
FindBestMatch ==
    /\ mode = "match"
    /\ pc = "call"
    /\ result' = findBestMatch(identifier, dictionary)
    /\ pc' = "returned"
    /\ UNCHANGED <<mode, code, run, typeMap, scanned, corrections, suggestions,
                   processed, fixes, messages, first, identifier, dictionary,
                   strA, strB, dist, score,
                   source, passOne, answer,
                   input, output, again>>

\* damerauLevenshteinDistance(strA, strB)
DamerauLevenshteinDistance ==
    /\ mode = "distance"
    /\ pc = "call"
    /\ dist' = damerauLevenshteinDistance(strA, strB)
    /\ pc' = "measured"
    /\ UNCHANGED <<mode, code, run, typeMap, scanned, corrections, suggestions,
                   processed, fixes, messages, first, identifier, dictionary, result,
                   strA, strB, score,
                   source, passOne, answer,
                   input, output, again>>

\* similarityScore(strA, strB)
SimilarityScore ==
    /\ mode = "distance"
    /\ pc = "measured"
    /\ score' = similarityScore(strA, strB)
    /\ pc' = "returned"
    /\ UNCHANGED <<mode, code, run, typeMap, scanned, corrections, suggestions,
                   processed, fixes, messages, first, identifier, dictionary, result,
                   strA, strB, dist,
                   source, passOne, answer,
                   input, output, again>>

\* applyGenericFixes(input)
ApplyGenericFixes ==
    /\ mode = "generic"
    /\ pc = "call"
    /\ output' = applyGenericFixes(input)
    /\ pc' = "returned"
    /\ UNCHANGED <<mode, code, run, typeMap, scanned, corrections, suggestions,
                   processed, fixes, messages, first, identifier, dictionary, result,
                   strA, strB, dist, score, source, passOne, answer,
                   input, again>>

\* fixMissingClosingBrackets(input)
FixMissingClosingBrackets ==
    /\ mode = "json"
    /\ pc = "call"
    /\ output' = fixMissingClosingBrackets(input)
    /\ pc' = "repaired"
    /\ UNCHANGED <<mode, code, run, typeMap, scanned, corrections, suggestions,
                   processed, fixes, messages, first, identifier, dictionary, result,
                   strA, strB, dist, score, source, passOne, answer,
                   input, again>>

\* the repair applied to its own output: fixMissingClosingBrackets(output.code)
RepairAgain ==
    /\ mode = "json"
    /\ pc = "repaired"
    /\ again' = fixMissingClosingBrackets(output.code)
    /\ pc' = "returned"
    /\ UNCHANGED <<mode, code, run, typeMap, scanned, corrections, suggestions,
                   processed, fixes, messages, first, identifier, dictionary, result,
                   strA, strB, dist, score, source, passOne, answer,
                   input, output>>

Next ==
    \/ AnalyzeCode
    \/ ApplyCorrections
    \/ ReportFixes
    \/ Resubmit
    \/ FindBestMatch
    \/ DamerauLevenshteinDistance
    \/ SimilarityScore
    \/ RegexPass
    \/ ReturnFixes
    \/ ApplyGenericFixes
    \/ FixMissingClosingBrackets
    \/ RepairAgain

Spec == Init /\ [][Next]_vars

-----------------------------------------------------------------------------
(* Properties                                                              *)

\* the occurrences of the method scan among the scanned ones
MethodOccurrences == SelectSeq(scanned, LAMBDA o : o.type = "method")

\* a later call: the text it was given is the text the call before it returned
SecondRun == mode = "code" /\ run >= 2 /\ pc = "returned"

\* the call left the text it was given unchanged
Stable == processed = code

\* C1: every call of fuzzyCorrectCode (and of analyzeCode inside it) returns
\* a result: no text makes the call end in an exception.
C1_NeverThrows == pc # "threw"

\* C2 as stated: on a text that the call before returned and that this call
\* leaves unchanged, the call returns an empty fixes list and an empty
\* suggestions list.
C2_SecondRunSilent == (SecondRun /\ Stable) => (fixes = <<>> /\ messages = <<>>)

\* C2 amended: on a text that the call before returned and that this call
\* leaves unchanged, the call makes no correction and returns an empty fixes
\* list, and its suggestions list holds one message for every low-confidence
\* occurrence still in the text (so it is empty only when there is none).
C2_SecondRunNoFixes ==
    (SecondRun /\ Stable) =>
        /\ corrections = <<>>
        /\ fixes = <<>>
        /\ Len(messages) =
               Cardinality({ k \in 1..Len(scanned) : scanned[k].result.confidence = "low" })

\* C2 witness: a second call on the output of a first call that fixed a typo,
\* which changes nothing and still reports a suggestion
C2_Witness ==
    /\ SecondRun
    /\ Stable
    /\ run = 2
    /\ first.fixes # <<>>
    /\ first.processed # first.code
    /\ messages # <<>>

\* the text has been rewritten by applyCorrections
Applied == mode = "code" /\ pc \in {"applied", "returned"}

\* the piece that offset p of the text contributes when every span of the
\* list is replaced at once: the replacement at the start of a span, nothing
\* inside a span, the character itself outside every span
PieceAt(text, list, p) ==
    IF \E k \in 1..Len(list) : list[k].startIndex = p
    THEN list[CHOOSE k \in 1..Len(list) : list[k].startIndex = p].corrected
    ELSE IF \E k \in 1..Len(list) : list[k].startIndex < p /\ p < list[k].endIndex
    THEN ""
    ELSE CharAt(text, p)

\* simultaneous replacement of every span of the list in the text
Replaced(text, list) ==
    For(0, Len(text) - 1, LAMBDA p, out : out \o PieceAt(text, list, p), "")

\* C3: applying the corrections of analyzeCode to the analyzed text gives
\* the simultaneous replacement of every [startIndex, endIndex) span by its
\* corrected name; every span holds the original token of its correction,
\* and the text outside the spans is unchanged.
C3_SimultaneousReplacement ==
    Applied =>
        /\ processed = Replaced(code, corrections)
        /\ \A k \in 1..Len(corrections) :
               Slice(code, corrections[k].startIndex, corrections[k].endIndex)
                   = corrections[k].original

\* C3 witness: two corrections were applied and the one applied first (the
\* later one in the text) has a replacement longer or shorter than its token
C3_Witness ==
    /\ Applied
    /\ Len(corrections) >= 2
    /\ Len(corrections[1].corrected) # Len(corrections[1].original)
    /\ corrections[1].startIndex > corrections[2].startIndex

\* the results of findBestMatch in the state: the result of the direct call,
\* and the results of the calls analyzeCode made for the names that were not
\* in their dictionary
Returned ==
    IF mode = "match"
    THEN (IF pc = "returned" /\ ~Includes(dictionary, identifier) THEN {result} ELSE {})
    ELSE { scanned[k].result : k \in { i \in 1..Len(scanned) :
                                          ~scanned[i].threw /\ ~scanned[i].valid } }

\* the tier the stated thresholds give to distance d, similarity s, margin m
ExpectedTier(d, s, m) ==
    IF ~(d <= 2 /\ s.n * 100 >= 70 * s.d /\ m.n * 100 >= 8 * m.d) THEN Null
    ELSE IF d <= 1 /\ s.n * 100 >= 85 * s.d THEN "high"
    ELSE IF d <= 2 /\ s.n * 100 >= 75 * s.d THEN "medium"
    ELSE IF d <= 2 /\ s.n * 100 >= 65 * s.d THEN "low"
    ELSE Null

\* C4: findBestMatch assigns no tier unless distance <= 2, similarity >= 0.70
\* and margin >= 0.08; then the tier is high if distance <= 1 and similarity
\* >= 0.85, else medium if distance <= 2 and similarity >= 0.75, else low if
\* distance <= 2 and similarity >= 0.65.
C4_TierThresholds ==
    \A r \in Returned : r.confidence = ExpectedTier(r.distance, r.similarity, r.margin)

\* C4 witness: a direct call returned the medium tier at distance 2 and a
\* similarity of exactly 0.75
C4_Witness ==
    /\ mode = "match"
    /\ pc = "returned"
    /\ ~Includes(dictionary, identifier)
    /\ result.confidence = "medium"
    /\ result.distance = 2
    /\ result.similarity.n * 4 = 3 * result.similarity.d

\* the scanned occurrences whose match has the low tier
LowOccurrences == { k \in 1..Len(scanned) : scanned[k].result.confidence = "low" }

\* how far the applied corrections in front of offset p move it
ShiftAt(p) ==
    For(1, Len(corrections),
        LAMBDA k, moved :
            IF corrections[k].startIndex < p
            THEN moved + Len(corrections[k].corrected)
                       - (corrections[k].endIndex - corrections[k].startIndex)
            ELSE moved,
        0)

\* the message fuzzyCorrectCode is to return for a suggestion
PossibleTypo(c) ==
    "Possible typo: \"" \o c.original \o "\" - did you mean \"" \o c.corrected \o "\"?"

\* C5: a low-confidence match is never applied: it is a suggestion and not a
\* correction, its original token is still in the processed text at its
\* occurrence, and the returned suggestions hold exactly one 'Possible typo'
\* message per low-confidence occurrence (repeated messages are not merged),
\* none of them in fixes.
C5_LowConfidenceOnlySuggested ==
    Applied =>
        /\ \A k \in 1..Len(corrections) : corrections[k].confidence \in {"high", "medium"}
        /\ \A k \in 1..Len(suggestions) : suggestions[k].confidence = "low"
        /\ Len(suggestions) = Cardinality(LowOccurrences)
        /\ \A k \in LowOccurrences :
               /\ \E j \in 1..Len(suggestions) : suggestions[j].startIndex = scanned[k].startIndex
               /\ Slice(processed,
                        scanned[k].startIndex + ShiftAt(scanned[k].startIndex),
                        scanned[k].endIndex + ShiftAt(scanned[k].startIndex))
                      = scanned[k].name
        /\ pc = "returned" =>
               /\ Len(messages) = Cardinality(LowOccurrences)
               /\ \A j \in 1..Len(messages) :
                      /\ messages[j] = PossibleTypo(suggestions[j])
                      /\ ~Includes(fixes, messages[j])

\* C5 witness: a call returned the same suggestion twice, once for each of
\* two low-confidence occurrences of one misspelled name
C5_Witness ==
    /\ mode = "code"
    /\ pc = "returned"
    /\ Cardinality(LowOccurrences) = 2
    /\ Len(messages) = 2
    /\ messages[1] = messages[2]
    /\ processed = code

\* C6: shouldAutoFix is true exactly when the confidence is high or medium,
\* and for an identifier that is not in the dictionary the match is non-null
\* exactly when the confidence is non-null.
C6_AutoFixIffHighOrMedium ==
    /\ (mode = "match" /\ pc = "returned") =>
           result.shouldAutoFix = (result.confidence \in {"high", "medium"})
    /\ \A r \in Returned :
           /\ r.shouldAutoFix = (r.confidence \in {"high", "medium"})
           /\ (r.match # Null) = (r.confidence # Null)

\* C6 witness: a direct call for an identifier that is not in the dictionary
\* returned a low-confidence match, which is not applied automatically
C6_Witness ==
    /\ mode = "match"
    /\ pc = "returned"
    /\ ~Includes(dictionary, identifier)
    /\ result.confidence = "low"
    /\ result.match # Null
    /\ ~result.shouldAutoFix

\* the entries of the dictionary that findBestMatch compares with the name:
\* those whose length is within the edit distance limit of the name's length
Compared(name, dict) == { k \in 1..Len(dict) : Abs(Len(name) - Len(dict[k])) <= 2 }

\* the similarity of the name to every entry of the dictionary
Similarities(name, dict) ==
    SubSeq([k \in 1..Len(dict) |-> similarityScore(name, dict[k])], 1, Len(dict))

\* among the entries c with similarities sims, entry i is a best one,
\* entry j a best among the others, and the two are closer than 0.08
CloseSecond(sims, c, i, j) ==
    /\ \A k \in c : FracGE(sims[i], sims[k])
    /\ j # i
    /\ \A k \in c \ {i} : FracGE(sims[j], sims[k])
    /\ FracSub(sims[i], sims[j]).n * 100 < 8 * FracSub(sims[i], sims[j]).d

\* the best and the second-best of the entries c are closer than 0.08
Ambiguous(name, dict, c) ==
    Bind(Similarities(name, dict), LAMBDA sims :
        \E i \in c :
            /\ \A k \in c : FracGE(sims[i], sims[k])
            /\ \E j \in c : CloseSecond(sims, c, i, j))

\* the occurrence scanned[k] got no match, no correction and no suggestion
Unreported(k) ==
    /\ scanned[k].result.match = Null
    /\ \A j \in 1..Len(corrections) : corrections[j].startIndex # scanned[k].startIndex
    /\ \A j \in 1..Len(suggestions) : suggestions[j].startIndex # scanned[k].startIndex

\* C7: when the best and the second-best entry of the dictionary have
\* similarities to a non-member identifier closer than 0.08, findBestMatch
\* returns match null, confidence null and shouldAutoFix false, and
\* analyzeCode emits neither a correction nor a suggestion for the occurrence.
C7_AmbiguitySuppressed ==
    /\ (mode = "match" /\ pc = "returned" /\ ~Includes(dictionary, identifier)
            /\ Ambiguous(identifier, dictionary, 1..Len(dictionary))) =>
           /\ result.match = Null
           /\ result.confidence = Null
           /\ ~result.shouldAutoFix
    /\ (mode = "code" /\ pc = "analyzed") =>
           \A k \in 1..Len(scanned) :
               (~scanned[k].valid
                    /\ Ambiguous(scanned[k].name, scanned[k].dictionary,
                                 1..Len(scanned[k].dictionary))) => Unreported(k)

\* C7 restricted to the entries findBestMatch compares: when the best and the
\* second-best of the entries within the length window are closer than 0.08,
\* the match is suppressed (this holds; the entries outside the window are
\* the ones C7 fails on)
C7_ComparedEntriesSuppressed ==
    /\ (mode = "match" /\ pc = "returned" /\ ~Includes(dictionary, identifier)
            /\ Ambiguous(identifier, dictionary, Compared(identifier, dictionary))) =>
           /\ result.match = Null
           /\ result.confidence = Null
           /\ ~result.shouldAutoFix
    /\ (mode = "code" /\ pc = "analyzed") =>
           \A k \in 1..Len(scanned) :
               (~scanned[k].valid
                    /\ Ambiguous(scanned[k].name, scanned[k].dictionary,
                                 Compared(scanned[k].name, scanned[k].dictionary)))
                   => Unreported(k)

\* C7, the case of two different entries at distance 1 and equal similarity:
\* a direct call returned no match
C7_Witness ==
    /\ mode = "match"
    /\ pc = "returned"
    /\ ~Includes(dictionary, identifier)
    /\ result.match = Null
    /\ result.distance = 1
    /\ \E i, j \in 1..Len(dictionary) :
           /\ dictionary[i] # dictionary[j]
           /\ damerauLevenshteinDistance(toLowerCase(identifier), toLowerCase(dictionary[i])) = 1
           /\ damerauLevenshteinDistance(toLowerCase(identifier), toLowerCase(dictionary[j])) = 1
           /\ Len(dictionary[i]) = Len(dictionary[j])

\* C8: findBestMatch returns a name that is in the dictionary unchanged, with
\* distance 0, similarity 1, confidence null and shouldAutoFix false, and
\* analyzeCode produces neither a correction nor a suggestion for an
\* occurrence whose name is in its selected dictionary.
C8_MembersUntouched ==
    /\ (mode = "match" /\ pc = "returned" /\ Includes(dictionary, identifier)) =>
           /\ result.match = identifier
           /\ result.distance = 0
           /\ result.similarity.n = result.similarity.d
           /\ result.confidence = Null
           /\ ~result.shouldAutoFix
    /\ (mode = "code" /\ pc \in {"analyzed", "applied", "returned"}) =>
           \A k \in 1..Len(scanned) :
               Includes(scanned[k].dictionary, scanned[k].name) =>
                   /\ \A j \in 1..Len(corrections) :
                          corrections[j].startIndex # scanned[k].startIndex
                   /\ \A j \in 1..Len(suggestions) :
                          suggestions[j].startIndex # scanned[k].startIndex

\* C8 witness: a direct call returned for a name that is in a dictionary
\* which also holds a name at distance 1 from it
C8_Witness ==
    /\ mode = "match"
    /\ pc = "returned"
    /\ Includes(dictionary, identifier)
    /\ \E k \in 1..Len(dictionary) :
           damerauLevenshteinDistance(toLowerCase(identifier), toLowerCase(dictionary[k])) = 1
    /\ result.match = identifier

\* the context getReceiverType is to return for a receiver: the receiver
\* itself when it is a key of CONTEXT_METHOD_MAP, else its entry in the type
\* map, else null
ExpectedContext(receiver, map) ==
    IF receiver \in DOMAIN CONTEXT_METHOD_MAP THEN receiver
    ELSE IF receiver \in DOMAIN map THEN map[receiver]
    ELSE Null

\* C9: getReceiverType returns the receiver itself when it is a fixed name
\* with a method dictionary, otherwise the receiver's type map entry if any,
\* otherwise null; the returned context is always null or a key that has a
\* method-name list.
C9_ReceiverTypeOrder ==
    mode = "code" =>
        \A k \in 1..Len(MethodOccurrences) :
            /\ MethodOccurrences[k].context
                   = ExpectedContext(MethodOccurrences[k].receiver, typeMap)
            /\ \/ MethodOccurrences[k].context = Null
               \/ MethodOccurrences[k].context \in DOMAIN CONTEXT_METHOD_MAP

\* C10: when the receiver of a dotted call resolves to a context, the method
\* name is corrected against that context's method dictionary only: the
\* corrected name of a correction or suggestion with a context is a member
\* of the context's method list.
C10_ContextDictionaryOnly ==
    mode = "code" =>
        /\ \A k \in 1..Len(corrections) :
               (corrections[k].type = "method" /\ corrections[k].context # Null) =>
                   /\ corrections[k].context \in DOMAIN CONTEXT_METHOD_MAP
                   /\ Includes(CONTEXT_METHOD_MAP[corrections[k].context],
                               corrections[k].corrected)
        /\ \A k \in 1..Len(suggestions) :
               (suggestions[k].type = "method" /\ suggestions[k].context # Null) =>
                   /\ suggestions[k].context \in DOMAIN CONTEXT_METHOD_MAP
                   /\ Includes(CONTEXT_METHOD_MAP[suggestions[k].context],
                               suggestions[k].corrected)

\* the contexts inferVariableTypes may bind a variable to
TrackedContexts == { CLASS_NAMES[k] : k \in 1..Len(CLASS_NAMES) } \cup {"GlideUser", "GlideSession"}

\* C11: inferVariableTypes binds a variable declared with 'new <Name>(' only
\* when Name is a canonical class name, and every context that is a value
\* of the type map has a method dictionary in CONTEXT_METHOD_MAP.
C11_TypeMapContextsHaveDictionaries ==
    mode = "code" =>
        \A v \in DOMAIN typeMap :
            /\ typeMap[v] \in TrackedContexts
            /\ typeMap[v] \in DOMAIN CONTEXT_METHOD_MAP

\* damerauLevenshteinDistance has returned
Measured == mode = "distance" /\ pc \in {"measured", "returned"}

\* the least number of a set of numbers
LeastOf(S) == CHOOSE m \in S : \A k \in S : m <= k

\* the optimal string alignment distance by its definition on the first
\* characters of the strings: delete the first character of x, insert the
\* first character of y, keep or substitute the first character, or swap the
\* first two characters of x when this yields the first two of y; each edit
\* costs 1 and what an edit produced is not edited again
RECURSIVE Osa(_, _)
Osa(x, y) ==
    IF x = "" THEN Len(y)
    ELSE IF y = "" THEN Len(x)
    ELSE LeastOf(
             { Osa(SliceFrom(x, 1), y) + 1,
               Osa(x, SliceFrom(y, 1)) + 1,
               Osa(SliceFrom(x, 1), SliceFrom(y, 1))
                   + (IF CharAt(x, 0) = CharAt(y, 0) THEN 0 ELSE 1) }
             \cup
             (IF /\ Len(x) >= 2
                 /\ Len(y) >= 2
                 /\ CharAt(x, 0) = CharAt(y, 1)
                 /\ CharAt(x, 1) = CharAt(y, 0)
              THEN { Osa(SliceFrom(x, 2), SliceFrom(y, 2)) + 1 }
              ELSE {}))

\* C12: damerauLevenshteinDistance returns the optimal string alignment
\* distance: 0 for identical strings, the length of the other string when
\* one is empty, and 1 for one swap of adjacent characters ('teh', 'the').
C12_OptimalStringAlignment ==
    /\ Measured =>
           /\ dist = Osa(strA, strB)
           /\ strA = strB => dist = 0
           /\ strA = "" => dist = Len(strB)
           /\ strB = "" => dist = Len(strA)
    /\ (Measured /\ strA = "" /\ strB = "") =>
           damerauLevenshteinDistance("teh", "the") = 1

\* C12 witness: the distance of two strings that differ by a swap of two
\* adjacent characters, next to a common character, was returned as 1
C12_Witness ==
    /\ Measured
    /\ strA = "aA" \o DottedCapitalI
    /\ strB = "Aa" \o DottedCapitalI
    /\ dist = 1

\* C13: damerauLevenshteinDistance(a, b) = damerauLevenshteinDistance(b, a),
\* also for the lower-cased strings.
C13_DistanceSymmetric ==
    Measured =>
        /\ dist = damerauLevenshteinDistance(strB, strA)
        /\ damerauLevenshteinDistance(toLowerCase(strA), toLowerCase(strB))
               = damerauLevenshteinDistance(toLowerCase(strB), toLowerCase(strA))

\* C13 witness: the distance of a longer to a shorter, different string
C13_Witness ==
    /\ Measured
    /\ Len(strA) = Len(strB) + 2
    /\ Len(strB) >= 1
    /\ dist = 3

\* C14: similarityScore(a, b) is 1 - distance(lower(a), lower(b)) /
\* max(len(a), len(b)), lies in [0, 1] (the distance never exceeds the longer
\* length), and is 1 when the strings are equal, also both empty, or differ
\* only in letter case.
C14_SimilarityInUnitInterval ==
    (mode = "distance" /\ pc = "returned") =>
        /\ Max2(Len(strA), Len(strB)) > 0 =>
               score.n * Max2(Len(strA), Len(strB))
                   = score.d * (Max2(Len(strA), Len(strB))
                                - damerauLevenshteinDistance(toLowerCase(strA),
                                                             toLowerCase(strB)))
        /\ score.d > 0
        /\ 0 <= score.n
        /\ score.n <= score.d
        /\ damerauLevenshteinDistance(toLowerCase(strA), toLowerCase(strB))
               <= Max2(Len(strA), Len(strB))
        /\ toLowerCase(strA) = toLowerCase(strB) => score.n = score.d

\* the list is in strictly descending order of startIndex
StrictlyDescending(list) ==
    \A k \in 1..(Len(list) - 1) : list[k].startIndex > list[k + 1].startIndex

\* C15: the corrections and the suggestions returned by analyzeCode are each
\* in strictly descending order of startIndex.
C15_ListsDescending ==
    (mode = "code" /\ pc \in {"analyzed", "applied", "returned"}) =>
        /\ StrictlyDescending(corrections)
        /\ StrictlyDescending(suggestions)

\* C15 witness: a method correction stands in front of a class correction,
\* although the class scan pushed its correction first
C15_Witness ==
    /\ mode = "code"
    /\ pc = "analyzed"
    /\ Len(corrections) = 2
    /\ corrections[1].type = "method"
    /\ corrections[2].type = "class"
    /\ corrections[1].startIndex > corrections[2].startIndex

\* the corrections of a tier, in the order of the corrections list
OfTier(tier) == SelectSeq(corrections, LAMBDA c : c.confidence = tier)

\* the 'original -> corrected' pairs of a list, each listed where it comes
\* first and separated by ", "
Listed(list) ==
    For(1, Len(list),
        LAMBDA k, out :
            IF \E j \in 1..(k - 1) :
                   /\ list[j].original = list[k].original
                   /\ list[j].corrected = list[k].corrected
            THEN out
            ELSE (IF out = "" THEN "" ELSE out \o ", ")
                     \o list[k].original \o " → " \o list[k].corrected,
        "")

\* the fix messages the stated rules give for the corrections
ExpectedFixes ==
    (IF OfTier("high") = <<>> THEN <<>>
     ELSE <<"Fixed " \o ToString(Len(OfTier("high"))) \o " typo(s): "
                \o Listed(OfTier("high"))>>)
    \o
    (IF OfTier("medium") = <<>> THEN <<>>
     ELSE <<"Auto-corrected " \o ToString(Len(OfTier("medium"))) \o " likely typo(s): "
                \o Listed(OfTier("medium"))>>)

\* C16: fuzzyCorrectCode returns at most one fix message per tier, the high
\* tier first: 'Fixed N typo(s): ...' with N the number of high-confidence
\* corrections and every distinct 'original -> corrected' pair once, then
\* 'Auto-corrected N likely typo(s): ...' for the medium tier, and none for a
\* tier without corrections; fixes is empty exactly when processed equals
\* the input.
C16_OneFixMessagePerTier ==
    (mode = "code" /\ pc = "returned") =>
        /\ fixes = ExpectedFixes
        /\ (fixes = <<>>) = (processed = code)

\* C16 witness: a call returned a message for each tier
C16_Witness ==
    /\ mode = "code"
    /\ pc = "returned"
    /\ Len(fixes) = 2
    /\ OfTier("high") # <<>>
    /\ OfTier("medium") # <<>>

\* applyServiceNowFixes has returned
Done == mode = "fixes" /\ pc = "done"

\* C17: applyServiceNowFixes runs the regex pass first and the fuzzy pass
\* second, on the output of the first: the returned processed is the output
\* of the fuzzy pass, fixes is the messages of the first pass followed by the
\* fix messages of the fuzzy pass, and suggestions is the suggestion list of
\* the fuzzy pass, none of it in fixes.
C17_RegexPassThenFuzzyPass ==
    Done =>
        /\ passOne = RegexFixes(source)
        /\ code = passOne.processed
        /\ processed = Replaced(code, corrections)
        /\ answer.processed = processed
        /\ Len(answer.fixes) = Len(passOne.fixes) + Len(fixes)
        /\ SubSeq(answer.fixes, 1, Len(passOne.fixes)) = passOne.fixes
        /\ SubSeq(answer.fixes, Len(passOne.fixes) + 1, Len(answer.fixes)) = fixes
        /\ answer.suggestions = messages
        /\ \A k \in 1..Len(messages) : ~Includes(answer.fixes, messages[k])

\* C17 witness: the first pass fixed a class name, and the fuzzy pass, on
\* the text with the fixed class name, fixed a method of that class
C17_Witness ==
    /\ Done
    /\ passOne.fixes # <<>>
    /\ passOne.processed # source
    /\ fixes # <<>>
    /\ Len(answer.fixes) = 2
    /\ answer.processed # passOne.processed

\* the entry is within edit distance 2 and similarity 0.70 of the name
WithinFloor(name, entry) ==
    /\ damerauLevenshteinDistance(toLowerCase(name), toLowerCase(entry)) <= 2
    /\ similarityScore(name, entry).n * 100 >= 70 * similarityScore(name, entry).d

\* no entry of the dictionary is within the floor of the name
BelowFloor(name, dict) == \A k \in 1..Len(dict) : ~WithinFloor(name, dict[k])

\* C18: an identifier for which no entry of the selected dictionary is within
\* edit distance 2 and similarity 0.70 gets no match from findBestMatch, and
\* its occurrence gets no correction and no suggestion from analyzeCode and
\* is still in the processed text of fuzzyCorrectCode, at its offset moved by
\* the corrections in front of it.
C18_SilentBelowFloor ==
    /\ (mode = "match" /\ pc = "returned" /\ BelowFloor(identifier, dictionary)) =>
           /\ result.match = Null
           /\ result.confidence = Null
           /\ ~result.shouldAutoFix
    /\ Applied =>
           \A k \in 1..Len(scanned) :
               BelowFloor(scanned[k].name, scanned[k].dictionary) =>
                   /\ Unreported(k)
                   /\ Slice(processed,
                            scanned[k].startIndex + ShiftAt(scanned[k].startIndex),
                            scanned[k].endIndex + ShiftAt(scanned[k].startIndex))
                          = scanned[k].name

\* C18 witness: a call returned a text in which an occurrence below the floor
\* of its non-empty dictionary stands unchanged
C18_Witness ==
    /\ mode = "code"
    /\ pc = "returned"
    /\ \E k \in 1..Len(scanned) :
           /\ scanned[k].dictionary # <<>>
           /\ BelowFloor(scanned[k].name, scanned[k].dictionary)
           /\ Slice(processed,
                    scanned[k].startIndex + ShiftAt(scanned[k].startIndex),
                    scanned[k].endIndex + ShiftAt(scanned[k].startIndex))
                  = scanned[k].name

\* what a step leaves of one run for the next: the arguments of a call are
\* not written, a run begins with none of the lists of the run before it,
\* its type map is inferred from its own text, and a run on the text of the
\* first run returns what the first run returned
RunIsolated ==
    /\ dictionary' = dictionary
    /\ identifier' = identifier
    /\ source' = source
    /\ (mode = "code" /\ pc' # "start") => code' = code
    /\ (mode = "code" /\ pc' = "start") =>
           /\ typeMap' = <<>>
           /\ scanned' = <<>>
           /\ corrections' = <<>>
           /\ suggestions' = <<>>
           /\ fixes' = <<>>
           /\ messages' = <<>>
    /\ (mode = "code" /\ pc' = "analyzed") => typeMap' = inferVariableTypes(code')
    /\ (mode = "code" /\ pc' = "returned" /\ run' >= 2 /\ code' = first'.code) =>
           /\ corrections' = first'.corrections
           /\ suggestions' = first'.suggestions
           /\ processed' = first'.processed
           /\ fixes' = first'.fixes
           /\ messages' = first'.messages

SelectableContexts ==
    DOMAIN CONTEXT_METHOD_MAP \cup { typeMap[v] : v \in DOMAIN typeMap }

\* C20: for every context key of CONTEXT_METHOD_MAP, every method name of the
\* key's list is a member of the flattened fallback list ALL_METHODS, in every
\* state and so for every context a scan can select.
C20_ContextMethodsInFallback ==
    \A key \in SelectableContexts \cap DOMAIN CONTEXT_METHOD_MAP :
        \A k \in 1..Len(CONTEXT_METHOD_MAP[key]) :
            Includes(ALL_METHODS, CONTEXT_METHOD_MAP[key][k])

\* C21: every text stabilizes after one pass: the call on the processed text
\* of the first call returns that text unchanged and an empty fixes list,
\* also when the first call corrected the class name of a declaration whose
\* variable is the receiver of later method calls.
C21_StableAfterOnePass ==
    (SecondRun /\ run = 2) =>
        /\ code = first.processed
        /\ processed = code
        /\ fixes = <<>>

\* C21, the case it names: the first call corrected a class name and nothing
\* else, the second call found the variable typed and corrected a method name
C21_Witness ==
    /\ SecondRun
    /\ run = 2
    /\ Len(first.corrections) = 1
    /\ first.corrections[1].type = "class"
    /\ DOMAIN typeMap # {}
    /\ Len(corrections) = 1
    /\ corrections[1].type = "method"
    /\ processed # code

\* the bindings the three patterns of inferVariableTypes recognise in the
\* text, each with the offset of its declaration
Bindings(text) ==
    LET news     == ExecAll("newPattern", text, 0)
        users    == ExecAll("getUserPattern", text, 0)
        sessions == ExecAll("getSessionPattern", text, 0)
    IN  { [index |-> news[k].index, name |-> news[k].groups[2], type |-> news[k].groups[3]] :
              k \in { j \in 1..Len(news) : Includes(CLASS_NAMES, news[j].groups[3]) } }
        \cup { [index |-> users[k].index, name |-> users[k].groups[2], type |-> "GlideUser"] :
                   k \in 1..Len(users) }
        \cup { [index |-> sessions[k].index, name |-> sessions[k].groups[2],
                type |-> "GlideSession"] : k \in 1..Len(sessions) }

\* C22: when a variable name is bound more than once by the recognised
\* patterns, the type map of inferVariableTypes holds for it the type of the
\* textually last binding, whichever patterns the bindings match.
C22_LastBindingWins ==
    (mode = "code" /\ pc = "analyzed") =>
        \A b \in Bindings(code) :
            (\A c \in Bindings(code) : c.name = b.name => c.index <= b.index) =>
                /\ b.name \in DOMAIN typeMap
                /\ typeMap[b.name] = b.type

\* the variant of findBestMatch that C23 compares with: the same loop, gate
\* and tiers, with the distance and similarity of every entry computed
findBestMatchComparingAll(ident, dict) ==
    IF Includes(dict, ident)
    THEN [match |-> ident, confidence |-> Null, shouldAutoFix |-> FALSE]
    ELSE
        Bind(SubSeq([k \in 1..Len(dict) |->
                        Bind(damerauLevenshteinDistance(toLowerCase(ident),
                                                        toLowerCase(dict[k])),
                             LAMBDA distance :
                                 [skipped    |-> FALSE,
                                  distance   |-> distance,
                                  similarity |-> SimilarityOf(distance, Len(ident),
                                                              Len(dict[k]))])],
                    1, Len(dict)),
             LAMBDA measured :
        Bind(For(1, Len(dict),
                 LAMBDA k, running : MatchStep(dict[k], measured[k], running),
                 [bestMatch            |-> Null,
                  bestDistance         |-> Infinity,
                  bestSimilarity       |-> Frac(0, 1),
                  secondBestSimilarity |-> Frac(0, 1)]),
             LAMBDA st :
        Bind(IF GatePasses(st.bestMatch, st.bestDistance, st.bestSimilarity,
                           FracSub(st.bestSimilarity, st.secondBestSimilarity))
             THEN TierOf(st.bestDistance, st.bestSimilarity)
             ELSE [confidence |-> Null, shouldAutoFix |-> FALSE],
             LAMBDA tier :
            [match         |-> IF tier.confidence # Null THEN st.bestMatch ELSE Null,
             confidence    |-> tier.confidence,
             shouldAutoFix |-> tier.shouldAutoFix])))

\* C23: the length skip of findBestMatch is only an optimization: for every
\* identifier and dictionary the call returns the match, confidence and
\* shouldAutoFix of the variant that compares every entry of the dictionary.
C23_LengthSkipOnlyOptimization ==
    (mode = "match" /\ pc = "returned") =>
        Bind(findBestMatchComparingAll(identifier, dictionary), LAMBDA all :
            /\ result.match = all.match
            /\ result.confidence = all.confidence
            /\ result.shouldAutoFix = all.shouldAutoFix)

\* C23, the case of the skip: a direct call returned a match from a
\* dictionary with an entry more than two characters longer than the
\* identifier
C23_Witness ==
    /\ mode = "match"
    /\ pc = "returned"
    /\ result.match # Null
    /\ ~Includes(dictionary, identifier)
    /\ \E k \in 1..Len(dictionary) : LengthSkip(identifier, dictionary[k])

\* C24: findBestMatch depends only on the set of names in the dictionary:
\* the call returns the match, confidence and shouldAutoFix it returns for
\* the dictionary with every repeated entry removed.
C24_RepeatedEntriesIgnored ==
    (mode = "match" /\ pc = "returned") =>
        Bind(findBestMatch(identifier, Unique(dictionary)), LAMBDA once :
            /\ result.match = once.match
            /\ result.confidence = once.confidence
            /\ result.shouldAutoFix = once.shouldAutoFix)

\* C24, the case it names: a direct call for a one-character typo of a name
\* the dictionary lists twice, with no other entry within the floor
C24_Witness ==
    /\ mode = "match"
    /\ pc = "returned"
    /\ ~Includes(dictionary, identifier)
    /\ Len(dictionary) = 2
    /\ dictionary[1] = dictionary[2]
    /\ result.distance = 1
    /\ result.match = Null

\* analyzeCode has returned (to fuzzyCorrectCode) without an exception
Analyzed == mode \in {"code", "fixes"} /\ pc = "analyzed"

\* the dictionary selected for the occurrence of a record, from its type and context
DictionaryOf(c) ==
    IF c.type = "class" THEN CLASS_NAMES
    ELSE IF c.context # Null /\ c.context \in DOMAIN CONTEXT_METHOD_MAP
    THEN CONTEXT_METHOD_MAP[c.context]
    ELSE ALL_METHODS

\* C25: every record of either list of analyzeCode(code) has
\* code.slice(startIndex, endIndex) = original, a corrected name that is in
\* the dictionary selected for the occurrence and differs from original, and
\* a span [startIndex, endIndex) disjoint from the span of every other record.
C25_RecordsWellFormed ==
    Analyzed =>
        Bind(corrections \o suggestions, LAMBDA records :
            /\ \A k \in 1..Len(records) :
                   /\ Slice(code, records[k].startIndex, records[k].endIndex)
                          = records[k].original
                   /\ Includes(DictionaryOf(records[k]), records[k].corrected)
                   /\ records[k].corrected # records[k].original
            /\ \A j, k \in 1..Len(records) :
                   j # k => \/ records[j].endIndex <= records[k].startIndex
                            \/ records[k].endIndex <= records[j].startIndex)

\* C25 witness: analyzeCode returned a class record and a method record
C25_Witness ==
    /\ Analyzed
    /\ \E j, k \in 1..Len(corrections \o suggestions) :
           /\ (corrections \o suggestions)[j].type = "class"
           /\ (corrections \o suggestions)[k].type = "method"

\* the occurrences of the scan whose match has one of the confidences
OfConfidence(tiers) ==
    { k \in 1..Len(scanned) : ~scanned[k].valid /\ scanned[k].result.confidence \in tiers }

\* the list holds one record for each of the occurrences, and no other
ExactlyFor(list, occurrences) ==
    /\ Len(list) = Cardinality(occurrences)
    /\ \A k \in occurrences :
           \E j \in 1..Len(list) :
               /\ list[j].startIndex = scanned[k].startIndex
               /\ list[j].original = scanned[k].name
               /\ list[j].confidence = scanned[k].result.confidence

\* the record is the one of a 'new <Name>(' occurrence of the text
FromClassOccurrence(c, text) ==
    \E p \in 0..Len(text) :
        /\ PatternAt("classPattern", text, p).ok
        /\ PatternAt("classPattern", text, p).groups[2] = c.original
        /\ PatternAt("classPattern", text, p).end > c.startIndex
        /\ p < c.startIndex

\* the record is the one of a '<receiver>.<name>(' occurrence of the text,
\* with the context resolved for the receiver
FromMethodOccurrence(c, text, map) ==
    \E p \in 0..Len(text) :
        /\ PatternAt("methodPattern", text, p).ok
        /\ PatternAt("methodPattern", text, p).groups[3] = c.original
        /\ p + Len(PatternAt("methodPattern", text, p).groups[2]) + 1 = c.startIndex
        /\ c.context = ExpectedContext(PatternAt("methodPattern", text, p).groups[2], map)

\* C26: the corrections of analyzeCode are exactly the occurrences whose
\* match has confidence high or medium and the suggestions exactly those
\* with confidence low; a record of a 'new <Name>(' occurrence has type
\* 'class' and context null, a record of a '<receiver>.<name>(' occurrence
\* has type 'method' and the context resolved for its receiver.
C26_PartitionByTierAndKind ==
    Analyzed =>
        /\ ExactlyFor(corrections, OfConfidence({"high", "medium"}))
        /\ ExactlyFor(suggestions, OfConfidence({"low"}))
        /\ \A k \in 1..Len(corrections \o suggestions) :
               Bind((corrections \o suggestions)[k], LAMBDA c :
                   \/ c.type = "class" /\ c.context = Null /\ FromClassOccurrence(c, code)
                   \/ c.type = "method" /\ FromMethodOccurrence(c, code, typeMap))

\* C26 witness: analyzeCode returned a method correction with the context
\* of its receiver and a method suggestion with context null
C26_Witness ==
    /\ Analyzed
    /\ \E k \in 1..Len(corrections) :
           corrections[k].type = "method" /\ corrections[k].context # Null
    /\ \E k \in 1..Len(suggestions) :
           suggestions[k].type = "method" /\ suggestions[k].context = Null

\* the class names of the 'new <Name>(' occurrences of the text, in order
ClassNamesOf(text) ==
    Bind(ExecAll("classPattern", text, 0), LAMBDA matches :
        SubSeq([k \in 1..Len(matches) |-> matches[k].groups[2]], 1, Len(matches)))

\* the regex pass of applyServiceNowFixes has run
PassOneDone == mode = "fixes" /\ pc # "entry"

\* C27: the regex typo pass of applyServiceNowFixes never alters a correctly
\* spelled class name: every 'new <Name>(' occurrence of the text whose Name
\* is in CLASS_NAMES has the same Name after the pass, the class-name typo
\* table leaves a text of such occurrences unchanged with a count of 0, and
\* the pass then reports no class name fix.
C27_ClassNamesUntouched ==
    PassOneDone =>
        Bind(ClassNamesOf(source), LAMBDA before :
        Bind(ClassNamesOf(passOne.processed), LAMBDA after :
            /\ Len(after) = Len(before)
            /\ \A k \in 1..Len(before) :
                   Includes(CLASS_NAMES, before[k]) => after[k] = before[k]
            /\ (\A k \in 1..Len(before) : Includes(CLASS_NAMES, before[k])) =>
                   /\ applyTypoFixes(source, CLASS_NAME_TYPOS) = [code |-> source, count |-> 0]
                   /\ \A j \in 1..Len(passOne.fixes) :
                          passOne.fixes[j] # TypoMessage("ServiceNow class name", 1)))

\* C27, the case it is about: the pass ran on a declaration with a canonical
\* class name that begins with a pattern of the class-name typo table
C27_Witness ==
    /\ PassOneDone
    /\ source \in Declarations
    /\ \E k \in 1..Len(CLASS_NAME_TYPOS) :
           IndexOf(source, CLASS_NAME_TYPOS[k][1]) # -1

\* C28: the boolean simplification of applyGenericFixes removes an equality
\* comparison against true ('== true', '=== true') together with the spaces
\* around the operator, and leaves every other comparison, '!= true' and
\* '!== true' among them, exactly as written.
C28_OnlyEqualityRemoved ==
    (mode = "generic" /\ pc = "returned") =>
        \A c \in Comparisons :
            TextOf(c) = input =>
                IF c.operator \in {"==", "==="} /\ c.tail # "x"
                THEN /\ output.processed = c.left \o c.tail
                     /\ output.fixes = <<"Simplified boolean comparisons (removed == true)">>
                ELSE /\ output.processed = input
                     /\ output.fixes = <<>>

\* C28, the case of an inequality: the call returned for a text with '!=='
C28_Witness ==
    /\ mode = "generic"
    /\ pc = "returned"
    /\ IndexOf(input, "!==") # -1

\* the gate as stated: distance <= 2, similarity >= 0.70, margin >= 0.08
GateOf(r) ==
    /\ r.distance <= 2
    /\ r.similarity.n * 100 >= 70 * r.similarity.d
    /\ r.margin.n * 100 >= 8 * r.margin.d

\* C29: for an identifier that is not in the dictionary, findBestMatch
\* returns a non-null match exactly when the gate (distance <= 2, similarity
\* >= 0.70, margin >= 0.08) passes, and then with a tier; a low-confidence
\* result has a similarity in [0.70, 0.75), and a best candidate with a
\* similarity in [0.65, 0.70) is neither matched nor suggested.
C29_MatchIffGatePasses ==
    /\ \A r \in Returned :
           /\ (r.match # Null) = GateOf(r)
           /\ GateOf(r) => r.confidence \in {"high", "medium", "low"}
           /\ r.confidence = "low" =>
                  /\ r.similarity.n * 100 >= 70 * r.similarity.d
                  /\ r.similarity.n * 100 < 75 * r.similarity.d
           /\ (r.similarity.n * 100 >= 65 * r.similarity.d
                   /\ r.similarity.n * 100 < 70 * r.similarity.d) =>
                  r.match = Null /\ r.confidence = Null
    /\ (mode \in {"code", "fixes"}) =>
           \A k \in 1..Len(suggestions) :
               /\ suggestions[k].similarity.n * 100 >= 70 * suggestions[k].similarity.d
               /\ suggestions[k].similarity.n * 100 < 75 * suggestions[k].similarity.d

\* C29 witness: a scan returned a suggestion for a name at similarity 5/7,
\* between 0.70 and 0.75
C29_Witness ==
    /\ mode = "code"
    /\ pc = "returned"
    /\ \E k \in 1..Len(suggestions) :
           /\ suggestions[k].confidence = "low"
           /\ suggestions[k].similarity.n * 7 = 5 * suggestions[k].similarity.d
    /\ \E r \in Returned : r.match # Null /\ GateOf(r) /\ r.confidence = "low"

\* C30: the structural repair is a fixpoint: a scan of the output of
\* fixMissingClosingBrackets finds no unmatched opening brace or bracket,
\* the repair of the output adds no closer and reports no fix, and the
\* closers the first repair appended are in the reverse of the order of the
\* unmatched openers.
C30_RepairIsFixpoint ==
    (mode = "json" /\ pc = "returned") =>
        /\ UnmatchedOpeners(output.code) = <<>>
        /\ again.code = output.code
        /\ again.fixes = <<>>
        /\ Bind(UnmatchedOpeners(input), LAMBDA stack :
               /\ stack = <<>> => output.code = input
               /\ stack # <<>> =>
                      /\ Len(output.code) = Len(trimEnd(input)) + 2 * Len(stack)
                      /\ Slice(output.code, 0, Len(trimEnd(input))) = trimEnd(input)
               /\ \A k \in 1..Len(stack) :
                      Slice(output.code, Len(trimEnd(input)) + 2 * (k - 1),
                            Len(trimEnd(input)) + 2 * k)
                          = "\n" \o (IF stack[Len(stack) + 1 - k] = "{" THEN "}" ELSE "]"))

\* C30 witness: the repair closed a bracket inside a brace, in that order,
\* and the repair of its output changed nothing
C30_Witness ==
    /\ mode = "json"
    /\ pc = "returned"
    /\ UnmatchedOpeners(input) = <<"{", "[">>
    /\ output.code = input \o "\n]\n}"
    /\ again = [code |-> output.code, fixes |-> <<>>]

=============================================================================
